---- MODULE Spec2Model ----
(***************************************************************************)
(* pdfsmith: the capability registry (backends/registry.py) and the        *)
(* selection facade (api.py).                                              *)
(*                                                                         *)
(* A descriptor (BackendInfo) carries two caches, _available and          *)
(* _instance.  The facade's handlers are modelled as whole operations: an  *)
(* action runs one handler to completion and records what it returned or   *)
(* raised (result) and the descriptor-level calls it made (trace).  The     *)
(* host environment (which packages import, which credentials are set) is  *)
(* an input of every call: it may differ from one call to the next.  The   *)
(* caller is sequential: it looks at the outcome of a call, then goes on.  *)
(*                                                                         *)
(* Three further specifications share the module: SpecConfig, the          *)
(* configuration resolver (config.py) over a file system and os.environ;   *)
(* SpecThreads, get_instance run step by step by several threads; and      *)
(* SpecAsync, parse_async coroutines interleaving on one event loop.       *)
(***************************************************************************)
EXTENDS Integers, Sequences, FiniteSets, TLC

\* ---------------------------------------------------------------- bounds
\* a descriptor's constructor returns at most this many objects in a run
MaxConstructions == 2

\* ------------------------------------------------------------- constants
\* api.py:13-25
\* an LLM backend appended to the list
DEFAULT_PREFERENCE_with_llm ==
    << "docling", "marker", "pymupdf4llm", "kreuzberg", "unstructured",
       "pdfplumber", "pymupdf", "pypdf", "pdfminer", "pypdfium2",
       "extractous", "anthropic" >>

DEFAULT_PREFERENCE ==
    << "docling", "marker", "pymupdf4llm", "kreuzberg", "unstructured",
       "pdfplumber", "pymupdf", "pypdf", "pdfminer", "pypdfium2",
       "extractous" >>

\* the keys of BACKEND_REGISTRY, registry.py:175-311
RegistryKeys ==
    { "pypdf", "pdfplumber", "pymupdf", "pymupdf4llm", "pdfminer",
      "pypdfium2", "unstructured", "kreuzberg", "extractous", "docling",
      "marker", "aws_textract", "azure_document_intelligence",
      "google_document_ai", "databricks", "llamaparse", "anthropic",
      "openai", "gemini" }

\* a BackendInfo built outside the registry with loader=lambda: MagicMock
\* (tests/conftest.py:148-154): its class lives in a module without AVAILABLE
MockDescriptors == { "mock_light" }

Descriptors == RegistryKeys \cup MockDescriptors

\* Python's None, and a present value
None == << >>
Some(v) == << v >>

\* ----------------------------------------------------------- environment
\* What the host offers for a descriptor while one call runs:
\*   "ok"        adapter module importable, third-party library importable,
\*               constructor succeeds
\*   "ctorfail"  as "ok" but the constructor raises (missing API key,
\*               malformed config file)
\*   "nodep"     adapter importable, its guarded third-party import fails
\*   "noadapter" importing the adapter module itself raises ImportError
\*   "broken"    importing the adapter module raises another exception
\*   "noflag"    the class's module defines no AVAILABLE attribute
EnvKinds(b) ==
    CASE b = "docling"    -> { "ok", "ctorfail", "nodep", "noadapter" }
      [] b = "pymupdf"    -> { "ok", "nodep", "broken" }
      [] b = "pypdf"      -> { "ok", "nodep" }
      [] b = "anthropic"  -> { "ok", "ctorfail", "nodep" }
      [] b = "mock_light" -> { "noflag" }
      [] OTHER            -> { "nodep" }

AllEnvKinds == { "ok", "ctorfail", "nodep", "noadapter", "broken", "noflag" }

\* the descriptors whose environment the model varies
Installable == { "docling", "pymupdf", "pypdf", "anthropic" }

\* names handed to get_backend / parse; two of them are not registry keys
UnknownNames == { "nonexistent_backend", "" }
NameInputs == { "docling", "anthropic" } \cup UnknownNames

\* descriptors on which is_available / get_instance are called directly
DirectCalls == { "docling" } \cup MockDescriptors

\* backend arguments handed to parse / parse_async
ParseNames == { "docling", "nonexistent_backend" }

VARIABLES
    pc,           \* the caller: "ready" to call, or a call has "returned"
    modules,      \* sys.modules: the AVAILABLE flag of each imported adapter
    available,    \* BackendInfo._available: None | Some(BOOLEAN)
    instance,     \* BackendInfo._instance: None | Some(object)
    result,       \* what the last operation returned or raised
    trace,        \* descriptor-level calls made by the last operation
    ctorOk,       \* history: successful constructor runs per descriptor
    returned,     \* history: objects get_instance has returned
    availReturns, \* history: values is_available has returned
    lateLoads     \* history: is_available ran the loader after it had returned

VARIABLES
    files,        \* the backend-scoped config files on disk
    environ,      \* os.environ
    loaded,       \* the last load_backend_config call: arguments and result
    coerced       \* the last get_bool call: arguments and result

configvars == << files, environ, loaded, coerced >>

VARIABLES
    threads,      \* the threads calling get_instance: position and locals
    settled,      \* history: the instance cached when all calls had returned
    tasks         \* the parse_async coroutines on the event loop

concvars == << threads, settled, tasks >>

VARIABLES
    heap,         \* the list objects of the interpreter, by identity
    module_table, \* the module-level dict BACKEND_DEFAULTS
    held          \* the dicts get_backend_defaults has returned to callers

defaultsvars == << heap, module_table, held >>

VARIABLES
    dbackend,     \* the DoclingBackend a caller holds: None | Some(object)
    built,        \* history: the argument and os.environ of its construction
    served        \* history: parse calls returned, per converter created

doclingvars == << dbackend, built, served >>

VARIABLES
    workers       \* the executor threads running DoclingBackend.parse

VARIABLES
    cli           \* the last run of the command line: arguments and outcome

\* the objects outside the registry, the resolver and the callers
objectvars == << defaultsvars, doclingvars, workers, cli >>

registryvars == << modules, available, instance, result, trace, ctorOk,
                   returned, availReturns, lateLoads >>

vars == << pc, registryvars, configvars, concvars, objectvars >>

\* the environment of one call: a kind for every descriptor
DefaultKind(b) == CHOOSE k \in EnvKinds(b) : TRUE

\* the descriptors a call without a name can reach
Ranked == { b \in Installable : \E i \in DOMAIN DEFAULT_PREFERENCE :
                                    DEFAULT_PREFERENCE[i] = b }

Environments ==
    { [b \in Descriptors |-> IF b \in Ranked THEN f[b] ELSE DefaultKind(b)] :
        f \in { g \in [Ranked -> AllEnvKinds] :
                   \A b \in Ranked : g[b] \in EnvKinds(b) } }

\* the environments that differ only in descriptor n
EnvFor(n) ==
    { [b \in Descriptors |-> IF b = n THEN e ELSE DefaultKind(b)] :
        e \in EnvKinds(n) }


\* ------------------------------------------------------- machine records
\* The handlers below are functions from a machine record to a machine
\* record: the mutable program state, the calls made so far, and the value
\* returned (val, obj, list) or the exception raised (exc, origin, msg).
Ev(call, b, ret) == [call |-> call, b |-> b, ret |-> ret]

Machine ==
    [ modules |-> modules, available |-> available, instance |-> instance,
      ctorOk |-> ctorOk, returned |-> returned,
      availReturns |-> availReturns, lateLoads |-> lateLoads, trace |-> << >>,
      exc |-> "none", origin |-> "none", msg |-> {},
      val |-> FALSE, obj |-> None, list |-> << >> ]

Raise(m, exc, origin, msg) ==
    [m EXCEPT !.exc = exc, !.origin = origin, !.msg = msg]

Log(m, call, b, ret) == [m EXCEPT !.trace = Append(@, Ev(call, b, ret))]

\* ------------------------------------------------------------ registry.py
\* registry.py:58-171, the _load_* functions: `from <adapter> import <Class>`.
\* An adapter module already in sys.modules is not executed again; a module
\* whose import raised is not kept.  Each adapter sets AVAILABLE from its
\* guarded third-party import (e.g. pypdf_backend.py:5-9).
ImportedFlag(e) ==
    CASE e \in { "ok", "ctorfail" } -> "True"
      [] e = "nodep"                 -> "False"
      [] e = "noflag"                -> "absent"
      [] OTHER                       -> "unloaded"

loader(m, b, e) ==
    IF m.modules[b] # "unloaded"
    THEN Log(m, "loader", b, "class")
    ELSE CASE e = "noadapter" ->
                Raise(Log(m, "loader", b, "raise ImportError"),
                      "ImportError", "loader", {b})
           [] e = "broken" ->
                Raise(Log(m, "loader", b, "raise OSError"),
                      "OSError", "loader", {b})
           [] OTHER ->
                Log([m EXCEPT !.modules[b] = ImportedFlag(e)],
                    "loader", b, "class")

\* the module's flag not read
getattr_AVAILABLE_unread(flag) == TRUE

\* registry.py:35, getattr(mod, "AVAILABLE", True)
getattr_AVAILABLE(flag) == IF flag = "absent" THEN TRUE ELSE flag = "True"

\* the availability cache never consulted
AvailabilityUnknown_always(m, b) == TRUE

\* registry.py:28, `if self._available is None`
AvailabilityUnknown(m, b) == m.available[b] = None

\* a bare `except:` in place of `except ImportError:`
CaughtByProbe_any(exc) == TRUE

\* registry.py:36-37, `except ImportError: self._available = False`
CaughtByProbe(exc) == exc = "ImportError"

BoolStr(v) == IF v THEN "True" ELSE "False"

\* registry.py:38, `return self._available`
ReturnAvailable(m, b) ==
    LET v == m.available[b][1]
    IN  Log([m EXCEPT !.val = v, !.availReturns[b] = @ \cup { v }],
            "is_available", b, BoolStr(v))

\* registry.py:26-38, BackendInfo.is_available
is_available(m, b, e) ==
    IF AvailabilityUnknown(m, b)
    THEN LET l0 == loader(m, b, e)
             l  == [l0 EXCEPT !.lateLoads[b] = @ \/ (m.availReturns[b] # {})]
         IN  IF l.exc = "none"
             THEN ReturnAvailable(
                    [l EXCEPT !.available[b] =
                                 Some(getattr_AVAILABLE(l.modules[b]))], b)
             ELSE IF CaughtByProbe(l.exc)
             THEN ReturnAvailable(
                    [l EXCEPT !.available[b] = Some(FALSE), !.exc = "none",
                              !.origin = "none", !.msg = {}], b)
             ELSE Log(l, "is_available", b, "raise")
    ELSE ReturnAvailable(m, b)

\* the constructors, e.g. pypdf_backend.py:21-26, anthropic_backend.py:106-122,
\* docling_backend.py:106-134: `if not AVAILABLE: raise ImportError`, then
\* credentials / configuration, which may raise
construct(m, b, e) ==
    IF m.modules[b] = "False"
    THEN Raise(Log(m, "construct", b, "raise"), "ImportError", "ctor", {b})
    ELSE IF e = "ctorfail"
    THEN Raise(Log(m, "construct", b, "raise"), "ValueError", "ctor", {b})
    ELSE LET o == [b |-> b, n |-> m.ctorOk[b] + 1]
         IN  Log([m EXCEPT !.obj = Some(o), !.ctorOk[b] = @ + 1],
                 "construct", b, "object")

\* the instance cache never consulted
InstanceMissing_always(m, b) == TRUE

\* registry.py:42, `if self._instance is None`
InstanceMissing(m, b) == m.instance[b] = None

\* the constructed object handed back without being cached
StoreInstance_dropped(c, b) == c

\* registry.py:44, `self._instance = backend_class()`: the assignment happens
\* only when the constructor returned
StoreInstance(c, b) == [c EXCEPT !.instance[b] = c.obj]

\* registry.py:45, `return self._instance`
ReturnInstance(m, b) ==
    [m EXCEPT !.obj = m.instance[b],
              !.returned[b] = @ \cup { m.instance[b][1] }]

\* a failed construction remembered as "not available"
ConstructionFailed_cached(c, b) == [c EXCEPT !.available[b] = Some(FALSE)]

\* registry.py:43-44, the loader or the constructor raised: the exception
\* leaves get_instance before anything is assigned
ConstructionFailed(c, b) == c

\* every call builds and caches a new instance
get_instance_uncached(m, b, e) ==
    LET l == loader(Log(m, "get_instance", b, "call"), b, e)
    IN  IF l.exc # "none" THEN ConstructionFailed(l, b)
        ELSE LET c == construct(l, b, e)
             IN  IF c.exc # "none" THEN ConstructionFailed(c, b)
                 ELSE ReturnInstance(StoreInstance(c, b), b)

\* registry.py:40-45, BackendInfo.get_instance
get_instance(m, b, e) ==
    LET m1 == Log(m, "get_instance", b, "call")
    IN  IF InstanceMissing(m1, b)
        THEN LET l == loader(m1, b, e)
             IN  IF l.exc # "none" THEN ConstructionFailed(l, b)
                 ELSE LET c == construct(l, b, e)
                      IN  IF c.exc # "none" THEN ConstructionFailed(c, b)
                          ELSE ReturnInstance(StoreInstance(c, b), b)
        ELSE ReturnInstance(m1, b)


\* ------------------------------------------------------------------ api.py
\* api.py:59 / api.py:37 / api.py:72, `name in BACKEND_REGISTRY`
InRegistry(name) == name \in RegistryKeys

\* the preference list walked from its last entry
PreferenceAt_reversed(i) ==
    DEFAULT_PREFERENCE[Len(DEFAULT_PREFERENCE) + 1 - i]

\* api.py:71 / api.py:36, `for name in DEFAULT_PREFERENCE`: the i-th name tried
PreferenceAt(i) == DEFAULT_PREFERENCE[i]

\* the lookup BACKEND_REGISTRY[name] left to fail on its own
UnknownBackendError_keyerror(m) ==
    Raise(m, "KeyError", "get_backend", RegistryKeys)

\* api.py:60-61, raise ValueError(f"Unknown backend: {name}. Available: {available}")
UnknownBackendError(m) == Raise(m, "ValueError", "get_backend", RegistryKeys)

\* api.py:64-67, raise ImportError(f"Backend '{name}' is not installed. ...")
NotInstalledError(m, n) == Raise(m, "ImportError", "get_backend", { n })

\* the not-installed error reused when nothing is installed
NoBackendsError_import(m) == Raise(m, "ImportError", "get_backend", {})

\* api.py:77-80, raise RuntimeError("No PDF parsing backends are installed. ...")
NoBackendsError(m) == Raise(m, "RuntimeError", "get_backend", {})

\* api.py:107 / api.py:130, raise FileNotFoundError(f"PDF file not found: ...")
FileNotFound(m, op) == Raise(m, "FileNotFoundError", op, {})

\* every probed descriptor taken as usable
Usable_any(a) == TRUE

\* api.py:74, `if info.is_available():`
Usable(a) == a.val

\* api.py:70-80, the auto-select loop from index i of DEFAULT_PREFERENCE
\* a backend whose construction fails is skipped for the next in the list
RECURSIVE AutoSelect_fallback(_, _, _)
AutoSelect_fallback(m, i, environment) ==
    IF i > Len(DEFAULT_PREFERENCE)
    THEN NoBackendsError(m)
    ELSE LET backend_name == PreferenceAt(i)
         IN  IF InRegistry(backend_name)
             THEN LET a == is_available(m, backend_name,
                                        environment[backend_name])
                      g == get_instance(a, backend_name,
                                        environment[backend_name])
                  IN  IF a.exc # "none" THEN a
                      ELSE IF Usable(a) /\ g.exc = "none" THEN g
                      ELSE IF Usable(a)
                      THEN AutoSelect_fallback(
                              [g EXCEPT !.exc = "none", !.origin = "none",
                                        !.msg = {}],
                              i + 1, environment)
                      ELSE AutoSelect_fallback(a, i + 1, environment)
             ELSE AutoSelect_fallback(m, i + 1, environment)

RECURSIVE AutoSelect(_, _, _)
AutoSelect(m, i, environment) ==
    IF i > Len(DEFAULT_PREFERENCE)
    THEN NoBackendsError(m)
    ELSE LET backend_name == PreferenceAt(i)
         IN  IF InRegistry(backend_name)
             THEN LET a == is_available(m, backend_name,
                                        environment[backend_name])
                  IN  IF a.exc # "none" THEN a
                      ELSE IF Usable(a)
                      THEN get_instance(a, backend_name,
                                        environment[backend_name])
                      ELSE AutoSelect(a, i + 1, environment)
             ELSE AutoSelect(m, i + 1, environment)

\* the explicit-name branch without its availability check
ExplicitSelect_unchecked(m, n, environment) ==
    IF ~ InRegistry(n)
    THEN UnknownBackendError(m)
    ELSE get_instance(m, n, environment[n])

\* api.py:58-68, the explicit-name branch
ExplicitSelect(m, n, environment) ==
    IF ~ InRegistry(n)
    THEN UnknownBackendError(m)
    ELSE LET a == is_available(m, n, environment[n])
         IN  IF a.exc # "none" THEN a
             ELSE IF ~ a.val
             THEN NotInstalledError(a, n)
             ELSE get_instance(a, n, environment[n])

\* api.py:44-80, get_backend(name); name is None or Some(string)
get_backend(m, name, environment) ==
    IF name # None
    THEN ExplicitSelect(m, name[1], environment)
    ELSE AutoSelect(m, 1, environment)

\* api.py:33-41, available_backends()
RECURSIVE AvailableFrom(_, _, _)
AvailableFrom(m, i, environment) ==
    IF i > Len(DEFAULT_PREFERENCE)
    THEN m
    ELSE LET name == PreferenceAt(i)
         IN  IF InRegistry(name)
             THEN LET a == is_available(m, name, environment[name])
                  IN  IF a.exc # "none" THEN a
                      ELSE IF a.val
                      THEN AvailableFrom([a EXCEPT !.list = Append(@, name)],
                                         i + 1, environment)
                      ELSE AvailableFrom(a, i + 1, environment)
             ELSE AvailableFrom(m, i + 1, environment)

\* the first backend listed is also instantiated
available_backends_warm(m, environment) ==
    LET a == AvailableFrom(m, 1, environment)
    IN  IF a.exc # "none" \/ a.list = << >> THEN a
        ELSE [get_instance(a, a.list[1], environment[a.list[1]])
                EXCEPT !.list = a.list]

\* the walk started one entry too late
available_backends_skip_first(m, environment) ==
    AvailableFrom(m, 2, environment)

available_backends(m, environment) == AvailableFrom(m, 1, environment)

\* the adapter's own parse (e.g. pypdf_backend.py:28-40): text, or whatever
\* the engine raises; which of the two is the host's choice
backend_parse(m, how, ok) ==
    LET b == m.obj[1].b
    IN  IF ok
        THEN Log(m, how, b, "text")
        ELSE Raise(Log(m, how, b, "raise"), "AdapterError", "backend", {b})

\* the precondition check left out
PathMissing_never(exists) == FALSE

\* api.py:106 / api.py:129, `if not pdf_path.exists()`
PathMissing(exists) == ~ exists

\* api.py:105-110, parse(pdf_path, backend=...)
parse(m, exists, name, ok, environment) ==
    IF PathMissing(exists)
    THEN FileNotFound(m, "parse")
    ELSE LET g == get_backend(m, name, environment)
         IN  IF g.exc # "none" THEN g ELSE backend_parse(g, "parse", ok)

\* no adapter taken to have a parse_async of its own
hasattr_parse_async_never(o) == FALSE

\* api.py:135, hasattr(backend_instance, "parse_async"): of the adapters only
\* KreuzbergBackend defines it (kreuzberg_backend.py:59); a MagicMock has
\* every attribute
hasattr_parse_async(o) == o.b \in { "kreuzberg", "mock_light" }

\* api.py:128-132, parse_async up to its first await: the precondition check
\* and the activation, run without suspension
parse_async_activate(m, exists, name, environment) ==
    IF PathMissing(exists)
    THEN FileNotFound(m, "parse_async")
    ELSE get_backend(m, name, environment)

\* api.py:135-140, the operation parse_async awaits
parse_async_dispatch(g, ok) ==
    IF hasattr_parse_async(g.obj[1])
    THEN backend_parse(g, "parse_async", ok)
    ELSE backend_parse(g, "executor:parse", ok)

\* api.py:128-140, parse_async(pdf_path, backend=...)
parse_async(m, exists, name, ok, environment) ==
    LET g == parse_async_activate(m, exists, name, environment)
    IN  IF g.exc # "none" THEN g ELSE parse_async_dispatch(g, ok)

\* ------------------------------------------------------------------ cli.py
\* every ImportError taken for any other exception
IsImportError_never(exc) == FALSE

\* except ImportError as e
IsImportError(exc) == exc = "ImportError"

\* what a run of the command leaves behind: the exit code, what went to
\* stdout and to stderr, whether the output file was written, whether parse
\* was called, and the exception caught
CliOutcome(code, out, err, written, called, exc) ==
    [ code |-> code, out |-> out, err |-> err, written |-> written,
      called |-> called, exc |-> exc ]

\* cmd_parse(args) in a process whose registry is m.  exists is
\* args.pdf_file.exists(), still_exists what parse finds a moment later,
\* output is args.output, write_ok whether write_text succeeds.
cmd_parse(m, exists, still_exists, name, output, ok, write_ok, environment) ==
    IF ~ exists
    THEN CliOutcome(1, "", "Error: File not found: ", FALSE, FALSE, "none")
    ELSE LET r == parse(m, still_exists, name, ok, environment)
         IN  IF r.exc = "none"
             THEN IF output # None
                  THEN IF write_ok
                       THEN CliOutcome(0, "Written to ", "", TRUE, TRUE, "none")
                       ELSE CliOutcome(1, "", "Error parsing PDF: ", FALSE,
                                       TRUE, "OSError")
                  ELSE CliOutcome(0, "markdown", "", FALSE, TRUE, "none")
             ELSE IF IsImportError(r.exc)
             THEN CliOutcome(1, "", "Error: ", FALSE, TRUE, r.exc)
             ELSE CliOutcome(1, "", "Error parsing PDF: ", FALSE, TRUE, r.exc)

\* -------------------------------------------------------------- config.py
\* A Python str is a sequence of one-character strings.
LowerLetters == << "a", "b", "c", "d", "e", "f", "g", "h", "i", "j", "k", "l", "m", "n",
                 "o", "p", "q", "r", "s", "t", "u", "v", "w", "x", "y", "z" >>
UpperLetters == << "A", "B", "C", "D", "E", "F", "G", "H", "I", "J", "K", "L", "M", "N",
                 "O", "P", "Q", "R", "S", "T", "U", "V", "W", "X", "Y", "Z" >>

LetterIndex(letters, c) == CHOOSE i \in DOMAIN letters : letters[i] = c
IsLetterOf(letters, c) == \E i \in DOMAIN letters : letters[i] = c

\* str.upper(), str.lower(), str.replace("-", "_")
str_upper(s) ==
    [i \in DOMAIN s |-> IF IsLetterOf(LowerLetters, s[i])
                        THEN UpperLetters[LetterIndex(LowerLetters, s[i])]
                        ELSE s[i]]

\* the comparison made on the string as stored
str_lower_verbatim(s) == s

str_lower(s) ==
    [i \in DOMAIN s |-> IF IsLetterOf(UpperLetters, s[i])
                        THEN LowerLetters[LetterIndex(UpperLetters, s[i])]
                        ELSE s[i]]

\* the name with its hyphens kept
str_replace_hyphen_kept(s) == s

str_replace_hyphen(s) == [i \in DOMAIN s |-> IF s[i] = "-" THEN "_" ELSE s[i]]

\* Python values held in an options mapping
PyNone == [kind |-> "none", b |-> FALSE, n |-> 0, s |-> << >>, l |-> << >>]
PyBool(v) == [kind |-> "bool", b |-> v, n |-> 0, s |-> << >>, l |-> << >>]
PyInt(v) == [kind |-> "int", b |-> FALSE, n |-> v, s |-> << >>, l |-> << >>]
PyStr(v) == [kind |-> "str", b |-> FALSE, n |-> 0, s |-> v, l |-> << >>]
PyList(v) == [kind |-> "list", b |-> FALSE, n |-> 0, s |-> << >>, l |-> v]

\* bool(val) of a value that is neither a bool nor a str
truthy(val) ==
    CASE val.kind = "int"  -> val.n # 0
      [] val.kind = "list" -> val.l # << >>
      [] OTHER             -> FALSE

\* a dict is a function from its keys; dict.get, dict.update
EmptyDict == << >>
dict_get(d, k) == IF k \in DOMAIN d THEN d[k] ELSE PyNone
dict_update(d, e) ==
    [k \in DOMAIN d \cup DOMAIN e |-> IF k \in DOMAIN e THEN e[k] ELSE d[k]]

\* the strings get_bool takes for true
TruthyStrings == { << "t", "r", "u", "e" >>, << "1" >>, << "y", "e", "s" >>, << "o", "n" >> }

\* BackendConfig.get_bool(key, default)
get_bool(options, key, default) ==
    LET val == dict_get(options, key)
    IN  CASE val.kind = "none" -> default
          [] val.kind = "bool" -> val.b
          [] val.kind = "str"  -> str_lower(val.s) \in TruthyStrings
          [] OTHER             -> truthy(val)

\* the string literals of config.py
str_docling == << "d", "o", "c", "l", "i", "n", "g" >>
str_marker == << "m", "a", "r", "k", "e", "r" >>
str_unstructured ==
    << "u", "n", "s", "t", "r", "u", "c", "t", "u", "r", "e", "d" >>
str_some_backend ==
    << "s", "o", "m", "e", "-", "b", "a", "c", "k", "e", "n", "d" >>
str_do_ocr == << "d", "o", "_", "o", "c", "r" >>
str_do_table_structure ==
    << "d", "o", "_", "t", "a", "b", "l", "e", "_",
       "s", "t", "r", "u", "c", "t", "u", "r", "e" >>
str_num_threads == << "n", "u", "m", "_", "t", "h", "r", "e", "a", "d", "s" >>
str_device == << "d", "e", "v", "i", "c", "e" >>
str_ocr_languages ==
    << "o", "c", "r", "_", "l", "a", "n", "g", "u", "a", "g", "e", "s" >>
str_use_llm == << "u", "s", "e", "_", "l", "l", "m" >>
str_batch_size == << "b", "a", "t", "c", "h", "_", "s", "i", "z", "e" >>
str_strategy == << "s", "t", "r", "a", "t", "e", "g", "y" >>
str_include_page_breaks ==
    << "i", "n", "c", "l", "u", "d", "e", "_", "p",
       "a", "g", "e", "_", "b", "r", "e", "a", "k", "s" >>
str_auto == << "a", "u", "t", "o" >>
str_en == << "e", "n" >>
str_fast == << "f", "a", "s", "t" >>
str_PDFSMITH_ == << "P", "D", "F", "S", "M", "I", "T", "H", "_" >>
str_underscore == << "_" >>

\* Path(f".pdfsmith/{backend_name}.yaml") and
\* Path.home() / ".config" / "pdfsmith" / f"{backend_name}.yaml"
LocalPath(backend_name) == [dir |-> "local", backend_name |-> backend_name]
UserPath(backend_name) == [dir |-> "user", backend_name |-> backend_name]

\* Path.exists()
path_exists(fs, path) == path \in DOMAIN fs /\ fs[path] # None

\* the user-level file is looked for first
find_config_file_user_first(fs, backend_name) ==
    IF path_exists(fs, UserPath(backend_name))
    THEN Some(UserPath(backend_name))
    ELSE IF path_exists(fs, LocalPath(backend_name))
         THEN Some(LocalPath(backend_name))
         ELSE None

find_config_file(fs, backend_name) ==
    IF path_exists(fs, LocalPath(backend_name))
    THEN Some(LocalPath(backend_name))
    ELSE IF path_exists(fs, UserPath(backend_name))
         THEN Some(UserPath(backend_name))
         ELSE None

\* what yaml.safe_load makes of a file: nothing (an empty document) or a
\* mapping
EmptyDocument == [kind |-> "none", map |-> EmptyDict]
Mapping(d) == [kind |-> "mapping", map |-> d]

\* yaml.safe_load(f) or {}
load_yaml_config(fs, path) ==
    LET document == fs[path][1]
    IN  IF document.kind = "none" \/ document.map = EmptyDict
        THEN EmptyDict
        ELSE document.map

\* the backend-prefixed spelling is tried first
Prefixes_backend_first(backend_upper) ==
    << backend_upper \o str_underscore,
       str_PDFSMITH_ \o backend_upper \o str_underscore >>

\* [f"PDFSMITH_{backend_upper}_", f"{backend_upper}_"]
Prefixes(backend_upper) ==
    << str_PDFSMITH_ \o backend_upper \o str_underscore,
       backend_upper \o str_underscore >>

\* the loop over the prefixes for one option, from prefix i on:
\* os.environ.get(env_key) of the first spelling that is set
RECURSIVE EnvLookup(_, _, _, _)
EnvLookup(env, prefixes, option_upper, i) ==
    IF i > Len(prefixes) THEN None
    ELSE LET env_key == prefixes[i] \o option_upper
         IN  IF env_key \in DOMAIN env
             THEN Some(env[env_key])
             ELSE EnvLookup(env, prefixes, option_upper, i + 1)

\* the loop over known_options, from option i on
RECURSIVE EnvOptions(_, _, _, _, _)
EnvOptions(env, backend_upper, known_options, i, config) ==
    IF i > Len(known_options) THEN config
    ELSE LET option == known_options[i]
             val == EnvLookup(env, Prefixes(backend_upper),
                              str_upper(option), 1)
         IN  EnvOptions(env, backend_upper, known_options, i + 1,
                        IF val = None THEN config
                        ELSE dict_update(config, (option :> PyStr(val[1]))))

load_env_config(env, backend_name, known_options) ==
    EnvOptions(env, str_replace_hyphen(str_upper(backend_name)),
               known_options, 1, EmptyDict)

\* the provenance tag: a fixed label, or str(config_path)
SourceLabel(label) == [label |-> label, path |-> None]
SourcePath(path) == [label |-> "path", path |-> Some(path)]

BackendConfig(backend_name, options, source) ==
    [backend_name |-> backend_name, options |-> options, source |-> source]

\* load_backend_config(backend_name, explicit_options, known_options);
\* an argument left out is None
load_backend_config(fs, env, backend_name, explicit_options, known_options) ==
    LET known == IF known_options = None THEN << >> ELSE known_options[1]
        config_path == find_config_file(fs, backend_name)
        file_options == IF config_path = None THEN EmptyDict
                        ELSE load_yaml_config(fs, config_path[1])
        env_options == load_env_config(env, backend_name, known)
        explicit == IF explicit_options = None THEN EmptyDict
                    ELSE explicit_options[1]
        merged1 == dict_update(EmptyDict, file_options)
        source1 == IF config_path = None THEN SourceLabel("defaults")
                   ELSE SourcePath(config_path[1])
        merged2 == dict_update(merged1, env_options)
        source2 == IF env_options # EmptyDict THEN SourceLabel("environment")
                   ELSE source1
        merged3 == dict_update(merged2, explicit)
        source3 == IF explicit # EmptyDict THEN SourceLabel("explicit")
                   ELSE source2
    IN  BackendConfig(backend_name, merged3, source3)

\* BACKEND_DEFAULTS and get_backend_defaults
BACKEND_DEFAULTS(backend_name) ==
    CASE backend_name = str_docling ->
            (str_do_ocr :> PyBool(FALSE))
            @@ (str_do_table_structure :> PyBool(TRUE))
            @@ (str_num_threads :> PyInt(4))
            @@ (str_device :> PyStr(str_auto))
            @@ (str_ocr_languages :> PyList(<< str_en >>))
      [] backend_name = str_marker ->
            (str_use_llm :> PyBool(FALSE)) @@ (str_batch_size :> PyInt(4))
      [] backend_name = str_unstructured ->
            (str_strategy :> PyStr(str_fast))
            @@ (str_include_page_breaks :> PyBool(TRUE))
      [] OTHER -> EmptyDict

get_backend_defaults(backend_name) == BACKEND_DEFAULTS(backend_name)

\* BACKEND_DEFAULTS as the interpreter holds it: a dict of dicts whose list
\* value is a reference to a list object.  The literal has one list,
\* ["en"], which is object 1 of the heap.
PyRef(r) == [kind |-> "ref", b |-> FALSE, n |-> r, s |-> << >>, l |-> << >>]
DefaultsKeys == { str_docling, str_marker, str_unstructured }
EnList == 1
ModuleHeap == << << str_en >> >>
ModuleDefaults ==
    [backend_name \in DefaultsKeys |->
       [k \in DOMAIN BACKEND_DEFAULTS(backend_name) |->
          IF BACKEND_DEFAULTS(backend_name)[k].kind = "list"
          THEN PyRef(EnList)
          ELSE BACKEND_DEFAULTS(backend_name)[k]]]

\* dict.copy(): a new dict holding the same values, references included
dict_copy(d) == d

\* BACKEND_DEFAULTS.get(backend_name, {}).copy()
get_backend_defaults_object(table, backend_name) ==
    dict_copy(IF backend_name \in DOMAIN table THEN table[backend_name]
              ELSE EmptyDict)

\* a dict as a caller reads it: each reference followed to its list
Deref(h, d) ==
    [k \in DOMAIN d |-> IF d[k].kind = "ref" THEN PyList(h[d[k].n]) ELSE d[k]]

\* ------------------------------------------------- docling_backend.py
CONVERTER_RESET_INTERVAL == 10

str_table_mode == << "t", "a", "b", "l", "e", "_", "m", "o", "d", "e" >>
str_generate_page_images ==
    << "g", "e", "n", "e", "r", "a", "t", "e", "_", "p", "a", "g", "e",
       "_", "i", "m", "a", "g", "e", "s" >>
str_generate_picture_images ==
    << "g", "e", "n", "e", "r", "a", "t", "e", "_", "p", "i", "c", "t", "u",
       "r", "e", "_", "i", "m", "a", "g", "e", "s" >>
str_images_scale ==
    << "i", "m", "a", "g", "e", "s", "_", "s", "c", "a", "l", "e" >>
KNOWN_OPTIONS ==
    << str_do_ocr, str_do_table_structure, str_num_threads, str_device,
       str_ocr_languages, str_table_mode, str_generate_page_images,
       str_generate_picture_images, str_images_scale >>

\* self._converter = None
NoConverter == 0

\* explicit_options as __init__ builds it from its do_ocr argument, the
\* other arguments left at None
ExplicitOptions(do_ocr) ==
    IF do_ocr = None THEN EmptyDict ELSE (str_do_ocr :> PyBool(do_ocr[1]))

\* dict.get(key, default)
dict_get_default(d, key, default) == IF key \in DOMAIN d THEN d[key] ELSE default

\* DoclingBackend.__init__(do_ocr=...), the module having imported docling
DoclingBackend_init(fs, env, do_ocr) ==
    LET explicit_options == ExplicitOptions(do_ocr)
        defaults == get_backend_defaults(str_docling)
        config == load_backend_config(fs, env, str_docling,
                                      Some(explicit_options),
                                      Some(KNOWN_OPTIONS))
        merged == dict_update(defaults, config.options)
    IN  [ config |-> merged,
          config_source |-> config.source,
          do_ocr |-> dict_get_default(merged, str_do_ocr, PyBool(FALSE)),
          converter |-> NoConverter,
          conversion_count |-> 0 ]

\* what pipeline_options.do_ocr = self._do_ocr switches on: a true bool or
\* a non-empty string
OcrEnabled(o) ==
    CASE o.do_ocr.kind = "bool" -> o.do_ocr.b
      [] o.do_ocr.kind = "str"  -> o.do_ocr.s # << >>
      [] OTHER                   -> truthy(o.do_ocr)

\* the converter is dropped one conversion late
ResetDue_late(count) == count > CONVERTER_RESET_INTERVAL

\* if self._conversion_count >= CONVERTER_RESET_INTERVAL
ResetDue(count) == count >= CONVERTER_RESET_INTERVAL

\* self._converter = None; gc.collect(); self._conversion_count = 0
reset_converter(o) ==
    IF ResetDue(o.conversion_count)
    THEN [o EXCEPT !.converter = NoConverter, !.conversion_count = 0]
    ELSE o

\* how a parse call ends: with the markdown text, or with an exception
\* out of DocumentConverter(...), converter.convert(pdf_path) or
\* result.document.export_to_markdown()
ParseOutcomes ==
    { "text", "DocumentConverter raises", "convert raises",
      "export_to_markdown raises" }

\* DoclingBackend.parse(pdf_path) on the object o, sv counting the calls
\* each converter created so far has completed.  _get_converter creates
\* the converter when there is none; the count advances after the cleanup.
docling_parse(o, sv, outcome) ==
    LET o1 == reset_converter(o)
        created == /\ o1.converter = NoConverter
                   /\ outcome # "DocumentConverter raises"
        o2 == IF created THEN [o1 EXCEPT !.converter = Len(sv) + 1] ELSE o1
        sv2 == IF created THEN Append(sv, 0) ELSE sv
    IN  IF outcome = "text"
        THEN [ o |-> [o2 EXCEPT !.conversion_count = @ + 1],
               served |-> [sv2 EXCEPT ![o2.converter] = @ + 1] ]
        ELSE [ o |-> o2, served |-> sv2 ]

\* ------------------------------------------------- configuration inputs
\* the strings of the configurations tried
str_cpu == << "c", "p", "u" >>
str_unknown == << "u", "n", "k", "n", "o", "w", "n" >>
str_from_file == << "f", "r", "o", "m", "_", "f", "i", "l", "e" >>
str_flag == << "f", "l", "a", "g" >>
str_true == << "t", "r", "u", "e" >>
str_empty == << >>
PDFSMITH_DOCLING_DO_OCR ==
    << "P", "D", "F", "S", "M", "I", "T", "H", "_", "D", "O",
       "C", "L", "I", "N", "G", "_", "D", "O", "_", "O", "C", "R" >>
DOCLING_DO_OCR ==
    << "D", "O", "C", "L", "I", "N", "G", "_", "D", "O", "_", "O", "C", "R" >>
DOCLING_UNKNOWN ==
    << "D", "O", "C", "L", "I", "N", "G",
       "_", "U", "N", "K", "N", "O", "W", "N" >>
SOME_BACKEND_DO_OCR ==
    << "S", "O", "M", "E", "_", "B", "A", "C", "K",
       "E", "N", "D", "_", "D", "O", "_", "O", "C", "R" >>

\* the backends whose configuration is resolved, and the one that has
\* config files
ConfigBackends == { str_docling, str_some_backend }
FileBackends == { str_docling }
ConfigPaths ==
    { LocalPath(b) : b \in FileBackends } \cup
    { UserPath(b) : b \in FileBackends }

\* what a config file may hold: nothing, a known option, or an option with
\* a default together with a key no backend declares
FileDocuments ==
    { EmptyDocument,
      Mapping(str_do_ocr :> PyBool(TRUE)),
      Mapping((str_device :> PyStr(str_cpu))
              @@ (str_unknown :> PyStr(str_from_file))) }

\* the environment variables set and unset, and the values given to them
EnvNames ==
    { PDFSMITH_DOCLING_DO_OCR, DOCLING_DO_OCR, DOCLING_UNKNOWN,
      SOME_BACKEND_DO_OCR }
EnvValues == { str_empty, str_true }

\* the arguments of load_backend_config
ExplicitInputs ==
    { None, Some(EmptyDict), Some(str_do_ocr :> PyBool(FALSE)) }
KnownInputs == { None, Some(<< str_do_ocr, str_device >>) }

\* backend names with a hyphen, a dot and a space, and the variables a host
\* may set for them
str_my_dot_backend == << "m", "y", ".", "b", "a", "c", "k", "e", "n", "d" >>
str_my_space_backend == << "m", "y", " ", "b", "a", "c", "k", "e", "n", "d" >>
MY_BACKEND_DO_OCR ==
    << "M", "Y", "_", "B", "A", "C", "K", "E", "N", "D",
       "_", "D", "O", "_", "O", "C", "R" >>
MY_DOT_BACKEND_DO_OCR ==
    << "M", "Y", ".", "B", "A", "C", "K", "E", "N", "D",
       "_", "D", "O", "_", "O", "C", "R" >>
MY_SPACE_BACKEND_DO_OCR ==
    << "M", "Y", " ", "B", "A", "C", "K", "E", "N", "D",
       "_", "D", "O", "_", "O", "C", "R" >>
NamedBackends ==
    { str_some_backend, str_my_dot_backend, str_my_space_backend }
NamedEnvNames ==
    { SOME_BACKEND_DO_OCR, MY_BACKEND_DO_OCR, MY_DOT_BACKEND_DO_OCR,
      MY_SPACE_BACKEND_DO_OCR }

\* ------------------------------------------------------ concurrent callers
\* the executor threads parse_async hands DoclingBackend.parse to
NumWorkers == 2
Workers == 1 .. NumWorkers
IdleWorker == [ pc |-> "idle", conv |-> NoConverter, n |-> 0 ]
MaxServed == 11

\* the threads that call get_instance on one descriptor, and the descriptor
NumThreads == 2
Threads == 1 .. NumThreads
ThreadDescriptor == "docling"

\* a thread outside get_instance, with nothing constructed or returned
IdleThread == [pc |-> "idle", obj |-> None, ret |-> None, late |-> FALSE]

\* the parse_async coroutines started on one event loop
NumTasks == 2
Tasks == 1 .. NumTasks

\* a coroutine that has not been started
IdleTask ==
    [ pc |-> "idle", name |-> None, obj |-> None, exc |-> "none",
      origin |-> "none", ops |-> << >> ]

\* ---------------------------------------------------------------- actions
Outcome(op, name, exists, m) ==
    [ op |-> op, name |-> name, exists |-> exists, exc |-> m.exc,
      origin |-> m.origin, msg |-> m.msg, val |-> m.val, obj |-> m.obj,
      list |-> m.list ]

\* the program state after a handler ran to completion
Commit(op, name, exists, handler) ==
    \E m \in { handler } :
        /\ pc' = "returned"
        /\ \A b \in Descriptors : m.ctorOk[b] <= MaxConstructions
        /\ modules' = m.modules
        /\ available' = m.available
        /\ instance' = m.instance
        /\ ctorOk' = m.ctorOk
        /\ returned' = m.returned
        /\ availReturns' = m.availReturns
        /\ lateLoads' = m.lateLoads
        /\ trace' = m.trace
        /\ result' = Outcome(op, name, exists, m)
        /\ UNCHANGED << configvars, concvars, objectvars >>

NameArgs == { None } \cup { Some(n) : n \in NameInputs }
ParseArgs == { None } \cup { Some(n) : n \in ParseNames }

\* the environments worth telling apart for a call with this name argument
CallEnvs(name) == IF name = None THEN Environments ELSE EnvFor(name[1])

NoResult ==
    [ op |-> "none", name |-> None, exists |-> TRUE, exc |-> "none",
      origin |-> "none", msg |-> {}, val |-> FALSE, obj |-> None,
      list |-> << >> ]

Init ==
    /\ pc = "ready"
    /\ modules = [b \in Descriptors |-> "unloaded"]
    /\ available = [b \in Descriptors |-> None]
    /\ instance = [b \in Descriptors |-> None]
    /\ result = NoResult
    /\ trace = << >>
    /\ ctorOk = [b \in Descriptors |-> 0]
    /\ returned = [b \in Descriptors |-> {}]
    /\ availReturns = [b \in Descriptors |-> {}]
    /\ lateLoads = [b \in Descriptors |-> FALSE]
    /\ files = [path \in ConfigPaths |-> None]
    /\ environ = EmptyDict
    /\ loaded = None
    /\ coerced = None
    /\ threads = [t \in Threads |-> IdleThread]
    /\ settled = None
    /\ tasks = [t \in Tasks |-> IdleTask]
    /\ heap = ModuleHeap
    /\ module_table = ModuleDefaults
    /\ held = << >>
    /\ dbackend = None
    /\ built = None
    /\ served = << >>
    /\ workers = [t \in Workers |-> IdleWorker]
    /\ cli = None

\* a caller runs get_backend(name)
GetBackend ==
    /\ pc = "ready"
    /\ \E name \in NameArgs : \E environment \in CallEnvs(name) :
          Commit("get_backend", name, TRUE,
                 get_backend(Machine, name, environment))

\* a caller runs available_backends()
AvailableBackends ==
    /\ pc = "ready"
    /\ \E environment \in Environments :
          Commit("available_backends", None, TRUE,
                 available_backends(Machine, environment))

\* a caller runs is_available() on a descriptor
IsAvailable ==
    /\ pc = "ready"
    /\ \E b \in DirectCalls : \E e \in EnvKinds(b) :
          Commit("is_available", Some(b), TRUE, is_available(Machine, b, e))

\* a caller runs get_instance() on a descriptor
GetInstance ==
    /\ pc = "ready"
    /\ \E b \in DirectCalls : \E e \in EnvKinds(b) :
          Commit("get_instance", Some(b), TRUE, get_instance(Machine, b, e))

\* a caller runs parse(pdf_path, backend=name); a missing path needs no
\* environment
Parse ==
    /\ pc = "ready"
    /\ \E name \in ParseArgs :
          \/ Commit("parse", name, FALSE,
                    parse(Machine, FALSE, name, TRUE,
                          CHOOSE e \in Environments : TRUE))
          \/ \E ok \in BOOLEAN : \E environment \in CallEnvs(name) :
                Commit("parse", name, TRUE,
                       parse(Machine, TRUE, name, ok, environment))

\* a caller awaits parse_async(pdf_path, backend=name)
ParseAsync ==
    /\ pc = "ready"
    /\ \E name \in ParseArgs :
          \/ Commit("parse_async", name, FALSE,
                    parse_async(Machine, FALSE, name, TRUE,
                                CHOOSE e \in Environments : TRUE))
          \/ \E ok \in BOOLEAN : \E environment \in CallEnvs(name) :
                Commit("parse_async", name, TRUE,
                       parse_async(Machine, TRUE, name, ok, environment))

\* the caller has seen the outcome of its call and goes on to the next one
Continue ==
    /\ pc = "returned"
    /\ pc' = "ready"
    /\ result' = NoResult
    /\ trace' = << >>
    /\ UNCHANGED << modules, available, instance, ctorOk, returned,
                    availReturns, lateLoads >>
    /\ UNCHANGED << configvars, concvars, objectvars >>

Next ==
    \/ GetBackend
    \/ AvailableBackends
    \/ IsAvailable
    \/ GetInstance
    \/ Parse
    \/ ParseAsync
    \/ Continue

Spec == Init /\ [][Next]_vars

\* ------------------------------------------ the configuration resolver
\* the strings stored under the key handed to get_bool
StoredStrings ==
    { << "t", "r", "u", "e" >>,
      << "T", "r", "u", "e" >>,
      << "T", "R", "U", "E" >>,
      << "1" >>,
      << "y", "e", "s" >>,
      << "Y", "E", "S" >>,
      << "o", "n" >>,
      << "O", "n" >>,
      << "o", "N" >>,
      << "f", "a", "l", "s", "e" >>,
      << "0" >>,
      << "n", "o" >>,
      << "o", "f", "f" >>,
      << "a", "n", "y", "t", "h", "i", "n", "g" >>,
      << "y", "e", "s", " " >>,
      << >> }

\* the values stored under the key: booleans, strings, integers, None
StoredValues ==
    { PyBool(TRUE), PyBool(FALSE), PyInt(0), PyInt(1), PyNone }
    \cup { PyStr(v) : v \in StoredStrings }

\* the options handed to BackendConfig: the key stored, or missing
StoredOptions ==
    { EmptyDict } \cup { (str_flag :> v) : v \in StoredValues }

\* a config file is written, or removed
WriteFile ==
    /\ pc = "ready"
    /\ \E path \in ConfigPaths :
       \E content \in { None } \cup { Some(d) : d \in FileDocuments } :
          files' = [files EXCEPT ![path] = content]
    /\ UNCHANGED << pc, registryvars, concvars, objectvars, environ, loaded, coerced >>

\* os.environ[name] = val
Setenv ==
    /\ pc = "ready"
    /\ \E name \in EnvNames : \E val \in EnvValues :
          environ' = dict_update(environ, (name :> val))
    /\ UNCHANGED << pc, registryvars, concvars, objectvars, files, loaded, coerced >>

\* del os.environ[name]
Delenv ==
    /\ pc = "ready"
    /\ \E name \in DOMAIN environ :
          environ' = [n \in DOMAIN environ \ { name } |-> environ[n]]
    /\ UNCHANGED << pc, registryvars, concvars, objectvars, files, loaded, coerced >>

\* a caller runs load_backend_config
LoadBackendConfig ==
    /\ pc = "ready"
    /\ \E backend_name \in ConfigBackends :
       \E explicit_options \in ExplicitInputs :
       \E known_options \in KnownInputs :
          loaded' = Some([ backend_name |-> backend_name,
                           explicit_options |-> explicit_options,
                           known_options |-> known_options,
                           config |-> load_backend_config(
                                         files, environ, backend_name,
                                         explicit_options, known_options) ])
    /\ pc' = "returned"
    /\ UNCHANGED << registryvars, concvars, objectvars, files, environ, coerced >>

\* a caller runs BackendConfig("test", options).get_bool("flag", default)
GetBool ==
    /\ pc = "ready"
    /\ \E options \in StoredOptions : \E default \in BOOLEAN :
          coerced' = Some([ options |-> options, key |-> str_flag,
                            default |-> default,
                            ret |-> get_bool(options, str_flag, default) ])
    /\ pc' = "returned"
    /\ UNCHANGED << registryvars, concvars, objectvars, files, environ, loaded >>

\* the caller has seen the outcome of its call and goes on to the next one
ConfigContinue ==
    /\ pc = "returned"
    /\ pc' = "ready"
    /\ loaded' = None
    /\ coerced' = None
    /\ UNCHANGED << registryvars, concvars, objectvars, files, environ >>

NextConfig ==
    \/ WriteFile
    \/ Setenv
    \/ Delenv
    \/ LoadBackendConfig
    \/ GetBool
    \/ ConfigContinue

SpecConfig == Init /\ [][NextConfig]_vars

\* ------------------------------------- callers of get_backend_defaults
MaxHeld == 2
MaxListLen == 2
str_modified == << "m", "o", "d", "i", "f", "i", "e", "d" >>
str_de == << "d", "e" >>
str_fr == << "f", "r" >>
DefaultsBackends == { str_docling, str_marker, str_unknown }
AssignedKeys == { str_do_ocr }
AssignedValues == { PyStr(str_modified) }
AppendedItems == { str_de, str_fr }

DefaultsFrame ==
    UNCHANGED << pc, registryvars, configvars, concvars, doclingvars,
                 workers, cli >>

\* a caller runs get_backend_defaults(backend_name) and keeps the dict
GetBackendDefaults ==
    /\ Len(held) < MaxHeld
    /\ \E backend_name \in DefaultsBackends :
          held' = Append(held,
                         get_backend_defaults_object(module_table, backend_name))
    /\ UNCHANGED << heap, module_table >>
    /\ DefaultsFrame

\* held[i][key] = val
SetItem ==
    /\ \E i \in DOMAIN held : \E key \in AssignedKeys :
       \E val \in AssignedValues :
          held' = [held EXCEPT ![i] = dict_update(@, (key :> val))]
    /\ UNCHANGED << heap, module_table >>
    /\ DefaultsFrame

\* held[i][key].append(item), for a key that holds a list
ListAppend ==
    /\ \E i \in DOMAIN held : \E key \in DOMAIN held[i] :
       \E item \in AppendedItems :
          /\ held[i][key].kind = "ref"
          /\ Len(heap[held[i][key].n]) < MaxListLen
          /\ heap' = [heap EXCEPT ![held[i][key].n] = Append(@, item)]
    /\ UNCHANGED << module_table, held >>
    /\ DefaultsFrame

\* the callers drop the dicts they hold
Release ==
    /\ held # << >>
    /\ held' = << >>
    /\ UNCHANGED << heap, module_table >>
    /\ DefaultsFrame

NextDefaults ==
    \/ GetBackendDefaults
    \/ SetItem
    \/ ListAppend
    \/ Release

SpecDefaults == Init /\ [][NextDefaults]_vars

\* ------------------------------------------- one DoclingBackend in use
DOCLING_OCR == << "D", "O", "C", "L", "I", "N", "G", "_", "O", "C", "R" >>
DoclingEnvNames == { DOCLING_OCR, DOCLING_DO_OCR }
DoOcrArguments == { None, Some(TRUE), Some(FALSE) }
MaxConverters == 2

DoclingFrame ==
    UNCHANGED << pc, registryvars, concvars, defaultsvars, files, loaded,
                 coerced, workers, cli >>

\* os.environ[name] = val, for a variable a docling user may set
SetenvDocling ==
    /\ pc = "ready"
    /\ \E name \in DoclingEnvNames : \E val \in EnvValues :
          environ' = dict_update(environ, (name :> val))
    /\ UNCHANGED doclingvars
    /\ DoclingFrame

\* a caller runs DoclingBackend(do_ocr=...) and keeps the object, or the
\* constructor raises ImportError because docling is not installed
NewDoclingBackend ==
    /\ pc = "ready"
    /\ \E AVAILABLE \in BOOLEAN : \E do_ocr \in DoOcrArguments :
          IF AVAILABLE
          THEN /\ dbackend' = Some(DoclingBackend_init(files, environ, do_ocr))
               /\ built' = Some([ do_ocr |-> do_ocr, environ |-> environ ])
          ELSE /\ dbackend' = None
               /\ built' = None
    /\ served' = << >>
    /\ UNCHANGED environ
    /\ DoclingFrame

\* the caller runs backend.parse(pdf_path) on the object it holds
DoclingParse ==
    /\ pc = "ready"
    /\ dbackend # None
    /\ \E outcome \in ParseOutcomes :
          LET o1 == reset_converter(dbackend[1])
              w == docling_parse(dbackend[1], served, outcome)
          IN  /\ o1.converter = NoConverter => Len(served) < MaxConverters
              /\ outcome = "DocumentConverter raises"
                    => o1.converter = NoConverter
              /\ dbackend' = Some(w.o)
              /\ served' = w.served
    /\ UNCHANGED << built, environ >>
    /\ DoclingFrame

NextDocling ==
    \/ SetenvDocling
    \/ Delenv
    \/ NewDoclingBackend
    \/ DoclingParse

SpecDocling == Init /\ [][NextDocling]_vars

\* ------------------------- executor threads in DoclingBackend.parse
\* Each read and each write of a field of the shared object is a step.
WorkerFrame ==
    UNCHANGED << pc, registryvars, configvars, concvars, defaultsvars, built,
                 cli >>

At(t, position) == dbackend # None /\ workers[t].pc = position
Goto(t, position) == workers' = [workers EXCEPT ![t].pc = position]

\* get_backend("docling") activates the singleton
ActivateDocling ==
    /\ dbackend = None
    /\ dbackend' = Some(DoclingBackend_init(files, environ, None))
    /\ built' = Some([ do_ocr |-> None, environ |-> environ ])
    /\ served' = << >>
    /\ UNCHANGED << pc, registryvars, configvars, concvars, defaultsvars,
                    workers, cli >>

\* loop.run_in_executor(None, backend.parse, path)
WorkerStart(t) ==
    /\ At(t, "idle")
    /\ workers' = [workers EXCEPT ![t] = [IdleWorker EXCEPT !.pc = "check"]]
    /\ UNCHANGED << dbackend, served >>
    /\ WorkerFrame

\* if self._conversion_count >= CONVERTER_RESET_INTERVAL
WorkerCheck(t) ==
    /\ At(t, "check")
    /\ Goto(t, IF ResetDue(dbackend[1].conversion_count)
               THEN "reset_converter" ELSE "get")
    /\ UNCHANGED << dbackend, served >>
    /\ WorkerFrame

\* self._converter = None
WorkerResetConverter(t) ==
    /\ At(t, "reset_converter")
    /\ dbackend' = Some([dbackend[1] EXCEPT !.converter = NoConverter])
    /\ Goto(t, "reset_count")
    /\ UNCHANGED served
    /\ WorkerFrame

\* self._conversion_count = 0
WorkerResetCount(t) ==
    /\ At(t, "reset_count")
    /\ dbackend' = Some([dbackend[1] EXCEPT !.conversion_count = 0])
    /\ Goto(t, "get")
    /\ UNCHANGED served
    /\ WorkerFrame

\* _get_converter: if self._converter is not None
WorkerGet(t) ==
    /\ At(t, "get")
    /\ Goto(t, IF dbackend[1].converter # NoConverter
               THEN "return" ELSE "create")
    /\ UNCHANGED << dbackend, served >>
    /\ WorkerFrame

\* self._converter = DocumentConverter(...)
WorkerCreate(t) ==
    /\ At(t, "create")
    /\ Len(served) < MaxConverters
    /\ dbackend' = Some([dbackend[1] EXCEPT !.converter = Len(served) + 1])
    /\ served' = Append(served, 0)
    /\ Goto(t, "return")
    /\ WorkerFrame

\* return self._converter
WorkerReturn(t) ==
    /\ At(t, "return")
    /\ workers' = [workers EXCEPT ![t].pc = "convert",
                                  ![t].conv = dbackend[1].converter]
    /\ UNCHANGED << dbackend, served >>
    /\ WorkerFrame

\* converter.convert(pdf_path) and export_to_markdown(): the conversion
\* completes, or raises (as it does on a converter that is None).  A
\* converter that has served MaxServed conversions is not followed further.
WorkerConvert(t) ==
    /\ At(t, "convert")
    /\ \E ok \in BOOLEAN :
          IF ok /\ workers[t].conv # NoConverter
          THEN /\ served[workers[t].conv] < MaxServed
               /\ served' = [served EXCEPT ![workers[t].conv] = @ + 1]
               /\ Goto(t, "load_count")
          ELSE /\ served' = served
               /\ Goto(t, "idle")
    /\ UNCHANGED dbackend
    /\ WorkerFrame

\* self._conversion_count += 1: the read
WorkerLoadCount(t) ==
    /\ At(t, "load_count")
    /\ workers' = [workers EXCEPT ![t].pc = "store_count",
                                  ![t].n = dbackend[1].conversion_count]
    /\ UNCHANGED << dbackend, served >>
    /\ WorkerFrame

\* self._conversion_count += 1: the write; the call returns
WorkerStoreCount(t) ==
    /\ At(t, "store_count")
    /\ dbackend' =
          Some([dbackend[1] EXCEPT !.conversion_count = workers[t].n + 1])
    /\ workers' = [workers EXCEPT ![t] = IdleWorker]
    /\ UNCHANGED served
    /\ WorkerFrame

NextWorkers ==
    \/ ActivateDocling
    \/ \E t \in Workers :
          \/ WorkerStart(t)
          \/ WorkerCheck(t)
          \/ WorkerResetConverter(t)
          \/ WorkerResetCount(t)
          \/ WorkerGet(t)
          \/ WorkerCreate(t)
          \/ WorkerReturn(t)
          \/ WorkerConvert(t)
          \/ WorkerLoadCount(t)
          \/ WorkerStoreCount(t)

SpecWorkers == Init /\ [][NextWorkers]_vars

\* ------------------------------------------------- the command line
OutputArgs == { None, Some("out.md") }

\* `pdfsmith parse pdf_file [-o output] [-b name]` runs in a new process
CmdParse ==
    /\ pc = "ready"
    /\ \E name \in ParseArgs : \E output \in OutputArgs :
          \/ cli' = Some([ exists |-> FALSE, still_exists |-> FALSE,
                           name |-> name, output |-> output, ok |-> TRUE,
                           write_ok |-> TRUE,
                           host |-> CHOOSE e \in Environments : TRUE,
                           ret |-> cmd_parse(Machine, FALSE, FALSE, name,
                                             output, TRUE, TRUE,
                                             CHOOSE e \in Environments : TRUE) ])
          \/ \E still_exists \in BOOLEAN : \E ok \in BOOLEAN :
             \E write_ok \in BOOLEAN : \E environment \in CallEnvs(name) :
                cli' = Some([ exists |-> TRUE, still_exists |-> still_exists,
                             name |-> name, output |-> output, ok |-> ok,
                             write_ok |-> write_ok, host |-> environment,
                             ret |-> cmd_parse(Machine, TRUE, still_exists,
                                               name, output, ok, write_ok,
                                               environment) ])
    /\ pc' = "returned"
    /\ UNCHANGED << registryvars, configvars, concvars, defaultsvars,
                    doclingvars, workers >>

\* the process has exited; the next command may be run
CliContinue ==
    /\ pc = "returned"
    /\ cli # None
    /\ pc' = "ready"
    /\ cli' = None
    /\ UNCHANGED << registryvars, configvars, concvars, defaultsvars,
                    doclingvars, workers >>

NextCli ==
    \/ CmdParse
    \/ CliContinue

SpecCli == Init /\ [][NextCli]_vars

\* ------------------------------- environment names of unusual backends
\* os.environ[name] = val, for a variable of one of the named backends
SetenvNamed ==
    /\ pc = "ready"
    /\ \E name \in NamedEnvNames : \E val \in EnvValues :
          environ' = dict_update(environ, (name :> val))
    /\ UNCHANGED << pc, registryvars, concvars, objectvars, files, loaded, coerced >>

\* a caller resolves the configuration of a backend that has no config
\* file and passes no explicit options
LoadNamedBackendConfig ==
    /\ pc = "ready"
    /\ \E backend_name \in NamedBackends :
       \E known_options \in KnownInputs :
          loaded' = Some([ backend_name |-> backend_name,
                           explicit_options |-> None,
                           known_options |-> known_options,
                           config |-> load_backend_config(
                                         files, environ, backend_name,
                                         None, known_options) ])
    /\ pc' = "returned"
    /\ UNCHANGED << registryvars, concvars, objectvars, files, environ, coerced >>

NextEnvNames ==
    \/ SetenvNamed
    \/ Delenv
    \/ LoadNamedBackendConfig
    \/ ConfigContinue

SpecEnvNames == Init /\ [][NextEnvNames]_vars

\* ------------------------------------- threads calling get_instance at once
\* BackendInfo.get_instance holds no lock: a thread may be preempted between
\* any two of its steps (the test of _instance, the loader, the constructor,
\* the assignment, the read for the return).

\* no thread is inside get_instance
Quiet(ts) == \A t \in Threads : ts[t].pc \in { "idle", "returned", "raised" }

\* history: the instance found cached the first time all calls had returned
Settle(ts, ins) == IF settled = None /\ Quiet(ts) THEN ins ELSE settled

\* the variables the threads leave alone
ThreadFrame ==
    UNCHANGED << pc, available, result, trace, returned, availReturns,
                 lateLoads, configvars, tasks, objectvars >>

\* a thread calls get_instance()
ThreadCall(t) ==
    /\ threads[t].pc = "idle"
    /\ threads' = [threads EXCEPT ![t] = [pc |-> "check", obj |-> None,
                                          ret |-> None,
                                          late |-> settled # None]]
    /\ UNCHANGED << modules, instance, ctorOk, settled >>
    /\ ThreadFrame

\* registry.py:42, `if self._instance is None`
ThreadCheck(t) ==
    /\ threads[t].pc = "check"
    /\ threads' = [threads EXCEPT ![t].pc =
                      IF InstanceMissing(Machine, ThreadDescriptor)
                      THEN "load" ELSE "return"]
    /\ UNCHANGED << modules, instance, ctorOk, settled >>
    /\ ThreadFrame

\* registry.py:43, `backend_class = self.loader()`
ThreadLoad(t) ==
    /\ threads[t].pc = "load"
    /\ \E e \in EnvKinds(ThreadDescriptor) :
       \E m \in { loader(Machine, ThreadDescriptor, e) } :
          /\ modules' = m.modules
          /\ threads' = [threads EXCEPT ![t].pc =
                            IF m.exc # "none" THEN "raised" ELSE "construct"]
          /\ settled' = Settle(threads', instance[ThreadDescriptor])
    /\ UNCHANGED << instance, ctorOk >>
    /\ ThreadFrame

\* registry.py:44, `backend_class()`
ThreadConstruct(t) ==
    /\ threads[t].pc = "construct"
    /\ \E e \in EnvKinds(ThreadDescriptor) :
       \E m \in { construct(Machine, ThreadDescriptor, e) } :
          /\ m.ctorOk[ThreadDescriptor] <= MaxConstructions
          /\ ctorOk' = m.ctorOk
          /\ threads' = [threads EXCEPT
                            ![t].pc = IF m.exc # "none" THEN "raised"
                                      ELSE "store",
                            ![t].obj = m.obj]
          /\ settled' = Settle(threads', instance[ThreadDescriptor])
    /\ UNCHANGED << modules, instance >>
    /\ ThreadFrame

\* registry.py:44, `self._instance = ...`
ThreadStore(t) ==
    /\ threads[t].pc = "store"
    /\ instance' = StoreInstance([Machine EXCEPT !.obj = threads[t].obj],
                                 ThreadDescriptor).instance
    /\ threads' = [threads EXCEPT ![t].pc = "return"]
    /\ UNCHANGED << modules, ctorOk, settled >>
    /\ ThreadFrame

\* registry.py:45, `return self._instance`
ThreadReturn(t) ==
    /\ threads[t].pc = "return"
    /\ threads' = [threads EXCEPT ![t].pc = "returned",
                                  ![t].ret = instance[ThreadDescriptor]]
    /\ settled' = Settle(threads', instance[ThreadDescriptor])
    /\ UNCHANGED << modules, instance, ctorOk >>
    /\ ThreadFrame

\* the caller has its instance, or its exception, and may call again
ThreadDone(t) ==
    /\ threads[t].pc \in { "returned", "raised" }
    /\ threads' = [threads EXCEPT ![t] = IdleThread]
    /\ UNCHANGED << modules, instance, ctorOk, settled >>
    /\ ThreadFrame

NextThreads ==
    \E t \in Threads :
        \/ ThreadCall(t)
        \/ ThreadCheck(t)
        \/ ThreadLoad(t)
        \/ ThreadConstruct(t)
        \/ ThreadStore(t)
        \/ ThreadReturn(t)
        \/ ThreadDone(t)

SpecThreads == Init /\ [][NextThreads]_vars

\* ------------------------------------ parse_async coroutines on one loop
\* A coroutine runs without interruption up to its await (api.py:136 or
\* api.py:139); other coroutines of the loop run while it is suspended.

\* the backend arguments of the coroutines, and the environments they find
AsyncNames == { None, Some("docling"), Some("kreuzberg") }
AsyncKinds(b) ==
    CASE b = "docling"   -> { "ok", "ctorfail", "nodep" }
      [] b = "kreuzberg" -> { "ok", "nodep" }
      [] OTHER           -> { DefaultKind(b) }
AsyncEnvironments ==
    { [b \in Descriptors |-> IF b = "docling" THEN d
                             ELSE IF b = "kreuzberg" THEN k
                             ELSE DefaultKind(b)] :
        d \in AsyncKinds("docling"), k \in AsyncKinds("kreuzberg") }

\* the variables the coroutines leave alone
AsyncFrame ==
    UNCHANGED << pc, result, trace, configvars, threads, settled,
                 objectvars >>

\* parse_async is called and runs up to its await, or to the exception
\* raised before it
AsyncStart(t) ==
    /\ tasks[t].pc = "idle"
    /\ \E name \in AsyncNames : \E exists \in BOOLEAN :
       \E environment \in AsyncEnvironments :
       \E m \in { parse_async_activate(Machine, exists, name, environment) } :
          /\ \A b \in Descriptors : m.ctorOk[b] <= MaxConstructions
          /\ modules' = m.modules
          /\ available' = m.available
          /\ instance' = m.instance
          /\ ctorOk' = m.ctorOk
          /\ returned' = m.returned
          /\ availReturns' = m.availReturns
          /\ lateLoads' = m.lateLoads
          /\ tasks' = [tasks EXCEPT ![t] =
                          [ pc |-> IF m.exc # "none" THEN "done"
                                   ELSE "awaiting",
                            name |-> name, obj |-> m.obj, exc |-> m.exc,
                            origin |-> m.origin, ops |-> << >> ]]
    /\ AsyncFrame

\* the awaited operation runs, on the instance the coroutine holds, and the
\* coroutine resumes with its result or its exception
AsyncComplete(t) ==
    /\ tasks[t].pc = "awaiting"
    /\ \E ok \in BOOLEAN :
       \E r \in { parse_async_dispatch([Machine EXCEPT !.obj = tasks[t].obj],
                                       ok) } :
          tasks' = [tasks EXCEPT ![t].pc = "done", ![t].exc = r.exc,
                                 ![t].origin = r.origin, ![t].ops = r.trace]
    /\ UNCHANGED << modules, available, instance, ctorOk, returned,
                    availReturns, lateLoads >>
    /\ AsyncFrame

\* the caller has the outcome of the coroutine
AsyncDone(t) ==
    /\ tasks[t].pc = "done"
    /\ tasks' = [tasks EXCEPT ![t] = IdleTask]
    /\ UNCHANGED << modules, available, instance, ctorOk, returned,
                    availReturns, lateLoads >>
    /\ AsyncFrame

NextAsync ==
    \E t \in Tasks :
        \/ AsyncStart(t)
        \/ AsyncComplete(t)
        \/ AsyncDone(t)

SpecAsync == Init /\ [][NextAsync]_vars


\* ================================================================ claims
Returned(op) == pc = "returned" /\ result.op = op

\* the position of a name in DEFAULT_PREFERENCE (0 when it is not listed)
PreferenceIndex(b) ==
    IF \E i \in DOMAIN DEFAULT_PREFERENCE : DEFAULT_PREFERENCE[i] = b
    THEN CHOOSE i \in DOMAIN DEFAULT_PREFERENCE : DEFAULT_PREFERENCE[i] = b
    ELSE 0

Calls(call) == { i \in DOMAIN trace : trace[i].call = call }

\* C1: get_backend(name) with a name that is not None and not a registry key
\* raises the unknown-backend ValueError, whose message lists every registry
\* key, and nothing else; no descriptor is probed, loaded or constructed.
C1_UnknownNameRaisesValueError ==
    ( /\ Returned("get_backend")
      /\ result.name # None
      /\ result.name[1] \notin RegistryKeys )
    => /\ result.exc = "ValueError"
       /\ result.origin = "get_backend"
       /\ result.msg = RegistryKeys
       /\ trace = << >>

\* an unknown name was refused although backends had been probed and built
C1_Witness ==
    /\ Returned("get_backend")
    /\ result.name = Some("nonexistent_backend")
    /\ result.exc = "ValueError"
    /\ instance["docling"] # None
    /\ available["anthropic"] = Some(TRUE)

\* C2: get_backend(None), when it returns, returns the cached instance of
\* the registered backend that is available and has the lowest index in
\* DEFAULT_PREFERENCE: every registered name before it is not available.
C2_AutoSelectLowestIndex ==
    ( /\ Returned("get_backend")
      /\ result.name = None
      /\ result.exc = "none" )
    => /\ result.obj # None
       /\ LET b == result.obj[1].b
          IN  /\ PreferenceIndex(b) > 0
              /\ b \in RegistryKeys
              /\ available[b] = Some(TRUE)
              /\ instance[b] = result.obj
              /\ \A j \in 1 .. (PreferenceIndex(b) - 1) :
                    DEFAULT_PREFERENCE[j] \in RegistryKeys
                    => available[DEFAULT_PREFERENCE[j]] = Some(FALSE)

\* pymupdf and pypdf are both available and auto-select returned pymupdf
C2_Witness ==
    /\ Returned("get_backend")
    /\ result.name = None
    /\ result.exc = "none"
    /\ result.obj # None
    /\ result.obj[1].b = "pymupdf"
    /\ available["pypdf"] = Some(TRUE)

\* C3: all successful get_backend / get_instance calls for one name return
\* the identical object, and the constructor of that name completed exactly
\* once.
C3_SingletonInstance ==
    \A b \in Descriptors :
        /\ Cardinality(returned[b]) <= 1
        /\ ctorOk[b] <= 1
        /\ returned[b] # {}
           => /\ ctorOk[b] = 1
              /\ instance[b] # None
              /\ returned[b] = { instance[b][1] }
        /\ ( /\ pc = "returned"
             /\ result.op \in { "get_backend", "get_instance" }
             /\ result.exc = "none"
             /\ result.obj # None
             /\ result.obj[1].b = b )
           => returned[b] = { result.obj[1] }

\* a repeated get_backend("docling") was served without constructing
C3_Witness ==
    /\ Returned("get_backend")
    /\ result.name = Some("docling")
    /\ result.exc = "none"
    /\ result.obj = instance["docling"]
    /\ Calls("get_instance") # {}
    /\ Calls("construct") = {}

\* C4: parse / parse_async on a missing path raise FileNotFoundError before
\* any backend is looked up, probed or constructed, whatever the backend
\* argument; the caches are what they were before the call.
C4_MissingPathFailsFirst ==
    [][ ( /\ pc = "ready"
          /\ pc' = "returned"
          /\ result'.op \in { "parse", "parse_async" }
          /\ ~ result'.exists )
        => /\ result'.exc = "FileNotFoundError"
           /\ result'.origin = result'.op
           /\ trace' = << >>
           /\ available' = available
           /\ instance' = instance
           /\ modules' = modules
           /\ ctorOk' = ctorOk ]_vars

\* parse_async on a missing path with a registry nobody has touched yet
C4_Witness ==
    /\ Returned("parse_async")
    /\ ~ result.exists
    /\ result.name = None
    /\ result.exc = "FileNotFoundError"
    /\ \A b \in Descriptors : available[b] = None /\ instance[b] = None

\* C5: get_backend(name) for a registry key whose is_available() is false
\* raises the not-installed ImportError naming that backend, raised by
\* get_backend itself and without reaching get_instance.
C5_NotInstalledRaisesImportError ==
    ( /\ Returned("get_backend")
      /\ result.name # None
      /\ result.name[1] \in RegistryKeys
      /\ available[result.name[1]] = Some(FALSE) )
    => /\ result.exc = "ImportError"
       /\ result.origin = "get_backend"
       /\ result.msg = { result.name[1] }
       /\ result.exc \notin { "ValueError", "RuntimeError" }
       /\ Calls("get_instance") = {}

\* get_backend("anthropic") refused because the SDK is not installed
C5_Witness ==
    /\ Returned("get_backend")
    /\ result.name = Some("anthropic")
    /\ available["anthropic"] = Some(FALSE)
    /\ result.exc = "ImportError"


FacadeOps == { "get_backend", "available_backends", "parse", "parse_async" }

\* C6: in every facade operation, each get_instance() call is preceded, in
\* the same operation, by an is_available() call on the same descriptor
\* that returned true.
C6_InstanceOnlyAfterAvailable ==
    ( pc = "returned" /\ result.op \in FacadeOps )
    => \A i \in Calls("get_instance") :
          \E j \in 1 .. (i - 1) :
              trace[j] = Ev("is_available", trace[i].b, "True")

\* auto-select passed over an unavailable docling and built a later backend
C6_Witness ==
    /\ Returned("get_backend")
    /\ result.name = None
    /\ \E i \in Calls("get_instance") :
          /\ trace[i].b # "docling"
          /\ \E j \in 1 .. (i - 1) : trace[j] = Ev("is_available", "docling", "False")

\* C7: get_backend(None) raises the no-backends RuntimeError when no entry
\* of the registry is available; of the three errors get_backend raises
\* itself, RuntimeError is the only one of the auto-select path, ValueError
\* belongs to unknown names and ImportError to known, unavailable names.
C7_NoBackendsRaisesRuntimeError ==
    Returned("get_backend")
    => /\ ( /\ result.name = None
            /\ result.origin # "loader"
            /\ \A b \in RegistryKeys : available[b] # Some(TRUE) )
          => /\ result.exc = "RuntimeError"
             /\ result.origin = "get_backend"
             /\ result.exc \notin { "ValueError", "ImportError" }
       /\ result.origin = "get_backend"
          => /\ result.exc \in { "ValueError", "ImportError", "RuntimeError" }
             /\ result.exc = "RuntimeError" <=> result.name = None
             /\ result.exc = "ValueError"
                <=> (result.name # None /\ result.name[1] \notin RegistryKeys)

\* nothing is installed, the commercial SDK included: RuntimeError
C7_Witness ==
    /\ Returned("get_backend")
    /\ result.name = None
    /\ result.exc = "RuntimeError"
    /\ available["anthropic"] = Some(FALSE)
    /\ \A i \in DOMAIN DEFAULT_PREFERENCE :
          available[DEFAULT_PREFERENCE[i]] = Some(FALSE)

\* the machine record of a call started in the state given by these caches
MachineOf(mods, av, ins, ok) ==
    [ modules |-> mods, available |-> av, instance |-> ins, ctorOk |-> ok,
      returned |-> [b \in Descriptors |-> {}],
      availReturns |-> [b \in Descriptors |-> {}],
      lateLoads |-> [b \in Descriptors |-> FALSE], trace |-> << >>,
      exc |-> "none", origin |-> "none", msg |-> {},
      val |-> FALSE, obj |-> None, list |-> << >> ]

\* C8: when the loader or the constructor raises inside get_instance(), the
\* caller gets the exception and nothing is cached: _instance stays None
\* and _available is what is_available() left it, so the next
\* get_instance() runs the constructor again, and returns an object when
\* the environment then lets the constructor succeed.
C8_ConstructionFailureNotCached ==
    [][ ( /\ pc = "ready"
          /\ pc' = "returned"
          /\ \/ result'.origin = "ctor"
             \/ result'.op = "get_instance" /\ result'.exc # "none" )
        => LET b == CHOOSE x \in result'.msg : TRUE
               again == get_instance(
                           MachineOf(modules', available', instance', ctorOk'),
                           b, "ok")
           IN  /\ result'.exc # "none"
               /\ instance' = instance
               /\ instance'[b] = None
               /\ result'.op = "get_instance" => available' = available
               /\ result'.op # "get_instance" => available'[b] = Some(TRUE)
               /\ \E i \in DOMAIN again.trace : again.trace[i].call = "construct"
               /\ modules'[b] # "False"
                  => again.exc = "none" /\ again.instance[b] # None ]_vars

\* docling's constructor raised in get_instance(); docling is still available
C8_Witness ==
    /\ Returned("get_instance")
    /\ result.name = Some("docling")
    /\ result.origin = "ctor"
    /\ result.exc = "ValueError"
    /\ instance["docling"] = None
    /\ available["docling"] = Some(TRUE)

\* C9: is_available() returns one value per descriptor for the whole run,
\* and never runs the loader once it has returned a value, whatever calls
\* and environment changes happen in between.
C9_AvailabilityNeverChanges ==
    \A b \in Descriptors :
        /\ Cardinality(availReturns[b]) <= 1
        /\ ~ lateLoads[b]
        /\ availReturns[b] # {} => available[b] # None /\ availReturns[b] = { available[b][1] }

\* is_available() answered false from the cache for a descriptor whose
\* adapter is still not imported and whose instance was built since
C9_Witness ==
    /\ Returned("is_available")
    /\ result.name = Some("docling")
    /\ trace = << Ev("is_available", "docling", "False") >>
    /\ instance["docling"] # None

\* C10: is_available() yields false, and caches it, when the loader raises
\* ImportError and when the loader succeeds but the module's AVAILABLE is
\* false; it yields true only when the loader succeeded and the flag is
\* true or absent.
C10_BothFailurePathsFalse ==
    /\ \A i \in Calls("loader") :
          ( i + 1 \in Calls("is_available") )
          => LET b == trace[i].b
                 answer == trace[i + 1].ret
             IN  /\ trace[i + 1].b = b
                 /\ trace[i].ret = "raise ImportError"
                    => answer = "False" /\ available[b] = Some(FALSE)
                 /\ trace[i].ret = "class" /\ modules[b] = "False"
                    => answer = "False" /\ available[b] = Some(FALSE)
                 /\ trace[i].ret = "class" /\ modules[b] \in { "True", "absent" }
                    => answer = "True" /\ available[b] = Some(TRUE)
    /\ \A b \in Descriptors :
          available[b] = Some(TRUE) => modules[b] \in { "True", "absent" }

\* one available_backends() call went through both failure paths, and the
\* mock descriptor without a flag is available
C10_Witness ==
    /\ Returned("available_backends")
    /\ \E i \in Calls("loader") :
          /\ trace[i].ret = "raise ImportError"
          /\ trace[i + 1] = Ev("is_available", trace[i].b, "False")
    /\ \E i \in Calls("loader") :
          /\ trace[i].ret = "class"
          /\ modules[trace[i].b] = "False"
          /\ trace[i + 1] = Ev("is_available", trace[i].b, "False")
    /\ modules["mock_light"] = "absent"
    /\ available["mock_light"] = Some(TRUE)


\* the names of DEFAULT_PREFERENCE that are registry keys and available,
\* in the order of the list
AvailableInPreferenceOrder ==
    SelectSeq(DEFAULT_PREFERENCE,
              LAMBDA n : n \in RegistryKeys /\ available[n] = Some(TRUE))

\* C20: available_backends(), when it returns, returns exactly the
\* descriptors that are listed in DEFAULT_PREFERENCE, registered and
\* available, each once, by ascending index in the list; a descriptor
\* whose is_available() is false is never in the result.
C20_AvailableBackendsExact ==
    ( Returned("available_backends") /\ result.exc = "none" )
    => /\ result.list = AvailableInPreferenceOrder
       /\ \A i, j \in DOMAIN result.list :
             i < j => PreferenceIndex(result.list[i])
                        < PreferenceIndex(result.list[j])
       /\ \A i \in DOMAIN result.list :
             /\ result.list[i] \in RegistryKeys
             /\ PreferenceIndex(result.list[i]) > 0
             /\ available[result.list[i]] = Some(TRUE)
       /\ \A i \in DOMAIN DEFAULT_PREFERENCE :
             DEFAULT_PREFERENCE[i] \in RegistryKeys
             => available[DEFAULT_PREFERENCE[i]] # None

\* docling and pypdf are listed, in that order; pymupdf, between them in
\* the preference list, is not installed; anthropic is available but not
\* in the preference list
C20_Witness ==
    /\ Returned("available_backends")
    /\ result.exc = "none"
    /\ result.list = << "docling", "pypdf" >>
    /\ available["pymupdf"] = Some(FALSE)
    /\ available["anthropic"] = Some(TRUE)

\* ------------------------------------------ the configuration resolver
\* the layers of the last load_backend_config call, as the host has them
LoadReturned == pc = "returned" /\ loaded # None
ExplicitLayer ==
    IF loaded[1].explicit_options = None THEN EmptyDict
    ELSE loaded[1].explicit_options[1]
KnownOptions ==
    IF loaded[1].known_options = None THEN << >>
    ELSE loaded[1].known_options[1]
EnvLayer == load_env_config(environ, loaded[1].backend_name, KnownOptions)
FileLayer ==
    LET config_path == find_config_file(files, loaded[1].backend_name)
    IN  IF config_path = None THEN EmptyDict
        ELSE load_yaml_config(files, config_path[1])
DefaultLayer == get_backend_defaults(loaded[1].backend_name)

\* the value of key k in the highest-precedence layer that defines it
HighestPrecedence(k) ==
    IF k \in DOMAIN ExplicitLayer THEN ExplicitLayer[k]
    ELSE IF k \in DOMAIN EnvLayer THEN EnvLayer[k]
    ELSE IF k \in DOMAIN FileLayer THEN FileLayer[k]
    ELSE DefaultLayer[k]

\* C14: the options load_backend_config returns give every key defined in
\* a layer the value of the highest-precedence layer that defines it, in
\* the order explicit option > environment variable > config file >
\* built-in default; a key of one layer only keeps that layer's value.
C14_HighestLayerWins ==
    LoadReturned
    => \A k \in DOMAIN ExplicitLayer \cup DOMAIN EnvLayer
                \cup DOMAIN FileLayer \cup DOMAIN DefaultLayer :
          /\ k \in DOMAIN loaded[1].config.options
          /\ loaded[1].config.options[k] = HighestPrecedence(k)

\* C15: the merge starts from the backend's built-in defaults: every key of
\* BACKEND_DEFAULTS for the backend that the file, the environment and the
\* explicit options leave alone is in the resolved options, with its
\* default value.
C15_DefaultsAreMerged ==
    LoadReturned
    => \A k \in DOMAIN DefaultLayer :
          k \notin DOMAIN ExplicitLayer \cup DOMAIN EnvLayer
                     \cup DOMAIN FileLayer
          => /\ k \in DOMAIN loaded[1].config.options
             /\ loaded[1].config.options[k] = DefaultLayer[k]

\* the tag of the last layer, in the order defaults, file, environment,
\* explicit, that contributed at least one key
LastContributingLayer ==
    IF ExplicitLayer # EmptyDict THEN SourceLabel("explicit")
    ELSE IF EnvLayer # EmptyDict THEN SourceLabel("environment")
    ELSE IF FileLayer # EmptyDict
         THEN SourcePath(find_config_file(files, loaded[1].backend_name)[1])
         ELSE SourceLabel("defaults")

\* C16: source names the last layer, in the order defaults, file,
\* environment, explicit, that contributed at least one key; a layer that
\* contributes no key leaves source as the previous contributing layer
\* set it.
C16_SourceIsLastContributingLayer ==
    LoadReturned => loaded[1].config.source = LastContributingLayer

\* the last load_backend_config call, made with the user-home file of its
\* backend holding content instead
ResolvedWithUserFile(content) ==
    load_backend_config(
        [files EXCEPT ![UserPath(loaded[1].backend_name)] = content],
        environ, loaded[1].backend_name, loaded[1].explicit_options,
        loaded[1].known_options)

\* C17: when the project-local file of the backend exists, the resolved
\* configuration is the one the local file gives: whatever the user-home
\* file holds, or whether it exists at all, the result is the same.
C17_UserFileIgnoredBesideLocal ==
    ( /\ LoadReturned
      /\ path_exists(files, LocalPath(loaded[1].backend_name)) )
    => /\ FileLayer = load_yaml_config(files,
                                       LocalPath(loaded[1].backend_name))
       /\ \A content \in { None } \cup { Some(d) : d \in FileDocuments } :
             loaded[1].config = ResolvedWithUserFile(content)

\* both files exist and hold different keys; the result has the local
\* file's key only
C17_Witness ==
    /\ LoadReturned
    /\ loaded[1].backend_name = str_docling
    /\ files[LocalPath(str_docling)]
          = Some(Mapping(str_do_ocr :> PyBool(TRUE)))
    /\ files[UserPath(str_docling)]
          = Some(Mapping((str_device :> PyStr(str_cpu))
                         @@ (str_unknown :> PyStr(str_from_file))))
    /\ loaded[1].config.options = (str_do_ocr :> PyBool(TRUE))
    /\ loaded[1].config.source = SourcePath(LocalPath(str_docling))

\* what each environment variable of EnvNames is the spelling of: the
\* backend, the option, and whether it is the PDFSMITH_ spelling
EnvVarFor(name) ==
    CASE name = PDFSMITH_DOCLING_DO_OCR ->
            [backend_name |-> str_docling, option |-> str_do_ocr,
             global |-> TRUE]
      [] name = DOCLING_DO_OCR ->
            [backend_name |-> str_docling, option |-> str_do_ocr,
             global |-> FALSE]
      [] name = DOCLING_UNKNOWN ->
            [backend_name |-> str_docling, option |-> str_unknown,
             global |-> FALSE]
      [] name = SOME_BACKEND_DO_OCR ->
            [backend_name |-> str_some_backend, option |-> str_do_ocr,
             global |-> FALSE]

\* the variables set in os.environ that spell this option of the backend
\* of the last call
SetSpellings(option, global) ==
    { name \in DOMAIN environ :
         /\ EnvVarFor(name).backend_name = loaded[1].backend_name
         /\ EnvVarFor(name).option = option
         /\ EnvVarFor(name).global = global }

KnownSet == { KnownOptions[i] : i \in DOMAIN KnownOptions }

\* C18: the environment layer holds a known option exactly when one of its
\* two spellings is set, with the value of PDFSMITH_<BACKEND>_<OPTION> when
\* that is set and of <BACKEND>_<OPTION> otherwise; a variable for an option
\* outside the known list never enters the resolved options, while every
\* key of the config file, known or not, does.
C18_EnvLayerKnownOptionsOnly ==
    LoadReturned
    => /\ DOMAIN EnvLayer
            = { o \in KnownSet :
                   SetSpellings(o, TRUE) \cup SetSpellings(o, FALSE) # {} }
       /\ \A o \in DOMAIN EnvLayer :
             \E name \in SetSpellings(o, TRUE) \cup SetSpellings(o, FALSE) :
                /\ EnvLayer[o] = PyStr(environ[name])
                /\ EnvVarFor(name).global \/ SetSpellings(o, TRUE) = {}
                /\ o \notin DOMAIN ExplicitLayer
                   => loaded[1].config.options[o] = PyStr(environ[name])
       /\ \A k \in DOMAIN loaded[1].config.options :
             k \in KnownSet \cup DOMAIN FileLayer \cup DOMAIN ExplicitLayer
       /\ \A k \in DOMAIN FileLayer : k \in DOMAIN loaded[1].config.options

\* both spellings of do_ocr are set, to different values, and so is a
\* variable for an option that is not known; the file holds that option
C18_Witness ==
    /\ LoadReturned
    /\ loaded[1].backend_name = str_docling
    /\ loaded[1].known_options = Some(<< str_do_ocr, str_device >>)
    /\ loaded[1].explicit_options = None
    /\ environ = (PDFSMITH_DOCLING_DO_OCR :> str_true)
                 @@ (DOCLING_DO_OCR :> str_empty)
                 @@ (DOCLING_UNKNOWN :> str_true)
    /\ files[LocalPath(str_docling)]
          = Some(Mapping((str_device :> PyStr(str_cpu))
                         @@ (str_unknown :> PyStr(str_from_file))))
    /\ loaded[1].config.options
          = (str_do_ocr :> PyStr(str_true))
            @@ (str_device :> PyStr(str_cpu))
            @@ (str_unknown :> PyStr(str_from_file))
    /\ loaded[1].config.source = SourceLabel("environment")

\* the stored strings that equal true, 1, yes or on when case is ignored
TruthySpellings ==
    { << "t", "r", "u", "e" >>,
      << "T", "r", "u", "e" >>,
      << "T", "R", "U", "E" >>,
      << "1" >>,
      << "y", "e", "s" >>,
      << "Y", "E", "S" >>,
      << "o", "n" >>,
      << "O", "n" >>,
      << "o", "N" >> }

GetBoolReturned == pc = "returned" /\ coerced # None

\* C19: get_bool returns a stored boolean as it is, TRUE for a stored
\* string that is true, 1, yes or on in any case, FALSE for every other
\* stored string, the empty one included, and the default handed in when
\* the key is missing.
C19_GetBoolCoercion ==
    GetBoolReturned
    => LET call == coerced[1]
       IN  /\ call.key \notin DOMAIN call.options
              => call.ret = call.default
           /\ call.key \in DOMAIN call.options
              => LET stored == call.options[call.key]
                 IN  /\ stored.kind = "bool" => call.ret = stored.b
                     /\ stored.kind = "str"
                        => call.ret = (stored.s \in TruthySpellings)
                     /\ ( stored.kind = "str" /\ stored.s = << >> )
                        => call.ret = FALSE

\* "YES" is stored and the default is FALSE: get_bool returns TRUE
C19_Witness ==
    /\ GetBoolReturned
    /\ coerced[1].options = (str_flag :> PyStr(<< "Y", "E", "S" >>))
    /\ coerced[1].default = FALSE
    /\ coerced[1].ret = TRUE

\* ------------------------------------- threads calling get_instance at once
\* C11: when callers run get_instance() on an uncached descriptor at the
\* same time, each may construct; once all of them have returned, one
\* instance is cached, it stays the cached one for good, and every call
\* made from then on returns it.
C11_OneSurvivingSingleton ==
    /\ ( Quiet(threads) /\ \E t \in Threads : threads[t].pc = "returned" )
       => /\ instance[ThreadDescriptor] # None
          /\ settled # None
    /\ settled # None => instance[ThreadDescriptor] = settled
    /\ \A t \in Threads :
          threads[t].pc = "returned"
          => /\ threads[t].ret # None
             /\ threads[t].late => threads[t].ret = settled

\* two constructors have run, so two first calls overlapped; one instance
\* was left cached and a call made afterwards has returned it
C11_Witness ==
    /\ ctorOk[ThreadDescriptor] = 2
    /\ settled # None
    /\ instance[ThreadDescriptor] = settled
    /\ \E t \in Threads :
          /\ threads[t].pc = "returned"
          /\ threads[t].late
          /\ threads[t].ret = settled

\* ------------------------------------ parse_async coroutines on one loop
\* the coroutines that hold an instance of descriptor b
Holding(b) ==
    { t \in Tasks : tasks[t].obj # None /\ tasks[t].obj[1].b = b }

\* C12: the parse_async coroutines running at once for one backend share
\* the cached instance: each holds, and has its parse invoked on, the
\* object cached in the descriptor, and the backend has been constructed
\* at most once.
C12_AsyncCallsShareInstance ==
    \A b \in Descriptors :
        /\ ctorOk[b] <= 1
        /\ \A t \in Holding(b) :
              /\ tasks[t].obj = instance[b]
              /\ \A u \in Holding(b) : tasks[u].obj = tasks[t].obj
              /\ \A i \in DOMAIN tasks[t].ops : tasks[t].ops[i].b = b

\* two coroutines for docling are suspended at their await at the same
\* time, holding the one object constructed
C12_Witness ==
    /\ \A t \in Tasks :
          /\ tasks[t].pc = "awaiting"
          /\ tasks[t].name = Some("docling")
          /\ tasks[t].obj = Some([b |-> "docling", n |-> 1])
    /\ ctorOk["docling"] = 1

\* parse and parse_async, called in the same state with the same arguments,
\* fail alike before any backend operation, or activate the same instance
\* with the same effect on the descriptors
SameActivationAsParse(exists, name, environment) ==
    LET a == parse_async_activate(Machine, exists, name, environment)
        p == parse(Machine, exists, name, TRUE, environment)
    IN  /\ a.exc = "FileNotFoundError" <=> ~ exists
        /\ a.exc # "none"
           => /\ p.exc = a.exc
              /\ p.msg = a.msg
              /\ p.trace = a.trace
        /\ a.exc = "none"
           => /\ p.exc = "none"
              /\ p.obj = a.obj
              /\ p.trace = Append(a.trace, Ev("parse", a.obj[1].b, "text"))
        /\ p.modules = a.modules
        /\ p.available = a.available
        /\ p.instance = a.instance
        /\ p.ctorOk = a.ctorOk

\* C13: parse_async checks the path and activates the backend as parse
\* does; then, if the instance is KreuzbergBackend, the one adapter with a
\* parse_async of its own, that method is invoked once and parse is not,
\* and otherwise parse is invoked once, through the executor; the caller
\* gets the text or the exception of that one invocation.
C13_ExactlyOneOperation ==
    /\ \A name \in AsyncNames : \A exists \in BOOLEAN :
       \A environment \in AsyncEnvironments :
          SameActivationAsParse(exists, name, environment)
    /\ \A t \in Tasks :
          tasks[t].pc = "done"
          => IF tasks[t].obj = None
             THEN /\ tasks[t].ops = << >>
                  /\ tasks[t].exc # "none"
                  /\ tasks[t].origin # "backend"
             ELSE /\ Len(tasks[t].ops) = 1
                  /\ tasks[t].ops[1].b = tasks[t].obj[1].b
                  /\ tasks[t].ops[1].call
                        = IF tasks[t].obj[1].b = "kreuzberg"
                          THEN "parse_async" ELSE "executor:parse"
                  /\ tasks[t].ops[1].ret \in { "text", "raise" }
                  /\ tasks[t].ops[1].ret = "text" <=> tasks[t].exc = "none"
                  /\ tasks[t].ops[1].ret = "raise"
                     => /\ tasks[t].exc = "AdapterError"
                        /\ tasks[t].origin = "backend"

\* one coroutine got the text of KreuzbergBackend.parse_async, another the
\* exception of DoclingBackend.parse run in the executor
C13_Witness ==
    \E t, u \in Tasks :
        /\ tasks[t].pc = "done"
        /\ tasks[t].obj = Some([b |-> "kreuzberg", n |-> 1])
        /\ tasks[t].ops = << Ev("parse_async", "kreuzberg", "text") >>
        /\ tasks[t].exc = "none"
        /\ tasks[u].pc = "done"
        /\ tasks[u].obj = Some([b |-> "docling", n |-> 1])
        /\ tasks[u].ops = << Ev("executor:parse", "docling", "raise") >>
        /\ tasks[u].exc = "AdapterError"

\* ------------------------------------------------ probes and activation
\* is_available() run on descriptor b in the present state, in environment e
ProbeAgain(b, e) ==
    is_available(MachineOf(modules, available, instance, ctorOk), b, e)

\* C24: is_available() turns an ImportError of the loader into False, which
\* it caches; any other exception of the loader leaves is_available() and
\* the facade call that made the probe, the flag stays unknown, and the
\* next is_available() on the descriptor runs the loader again.
C24_OnlyImportErrorBecomesFalse ==
    pc = "returned"
    => \A i \in DOMAIN trace :
          /\ ( trace[i].call = "loader" /\ trace[i].ret = "raise OSError" )
             => /\ i < Len(trace)
                /\ trace[i + 1] = Ev("is_available", trace[i].b, "raise")
          /\ ( trace[i].call = "is_available" /\ trace[i].ret = "raise" )
             => /\ i = Len(trace)
                /\ i > 1
                /\ trace[i - 1] = Ev("loader", trace[i].b, "raise OSError")
                /\ result.exc = "OSError"
                /\ result.origin = "loader"
                /\ available[trace[i].b] = None
                /\ \A e \in EnvKinds(trace[i].b) :
                      \E j \in DOMAIN ProbeAgain(trace[i].b, e).trace :
                         ProbeAgain(trace[i].b, e).trace[j].call = "loader"
          /\ ( /\ trace[i].call = "is_available"
               /\ i > 1
               /\ trace[i - 1]
                     = Ev("loader", trace[i].b, "raise ImportError") )
             => /\ trace[i].ret = "False"
                /\ available[trace[i].b] = Some(FALSE)

\* get_backend() walked the preference list to pymupdf, whose loader raised
\* OSError; marker was answered from its cache, so an earlier walk had gone
\* past it and had ended at pymupdf the same way; docling's adapter module
\* was never imported, its loader having raised ImportError, and docling is
\* cached as unavailable
C24_Witness ==
    /\ Returned("get_backend")
    /\ result.exc = "OSError"
    /\ available["pymupdf"] = None
    /\ available["docling"] = Some(FALSE)
    /\ modules["docling"] = "unloaded"
    /\ \E i \in DOMAIN trace : trace[i] = Ev("is_available", "marker", "False")
    /\ ~ \E i \in DOMAIN trace :
            trace[i].call = "loader" /\ trace[i].b = "marker"
    /\ trace[Len(trace)] = Ev("is_available", "pymupdf", "raise")

\* C25: is_available() and available_backends() construct nothing: a call
\* of either leaves every descriptor's cached instance and the number of
\* objects constructed as they were, and runs no constructor; and over
\* the whole run no descriptor's constructor succeeds more than once.
C25_ProbesConstructNothing ==
    [][ /\ ( /\ pc = "ready"
             /\ pc' = "returned"
             /\ result'.op \in { "is_available", "available_backends" } )
           => /\ instance' = instance
              /\ ctorOk' = ctorOk
              /\ returned' = returned
              /\ \A i \in DOMAIN trace' :
                    trace'[i].call \notin { "construct", "get_instance" }
        /\ \A b \in Descriptors : ctorOk'[b] <= 1 ]_vars

\* available_backends() listed docling, which had been constructed before
\* and is still cached, and pypdf, which has no instance
C25_Witness ==
    /\ Returned("available_backends")
    /\ result.list = << "docling", "pypdf" >>
    /\ instance["docling"] = Some([b |-> "docling", n |-> 1])
    /\ ctorOk["docling"] = 1
    /\ instance["pypdf"] = None
    /\ ctorOk["pypdf"] = 0

\* get_backend(None) run in the present state, in the given environment
SelectAgain(environment) ==
    get_backend(MachineOf(modules, available, instance, ctorOk), None,
                environment)

\* C26: when the constructor of the backend chosen by get_backend(None)
\* raises, the exception reaches the caller; the constructor was the last
\* thing run, no lower-ranked name was probed or constructed, and a second
\* get_backend(None) runs the constructor of the same backend again.
C26_NoFallbackNoRetry ==
    ( /\ Returned("get_backend")
      /\ result.name = None
      /\ \E i \in DOMAIN trace :
            trace[i].call = "construct" /\ trace[i].ret = "raise" )
    => LET b == trace[CHOOSE i \in DOMAIN trace :
                         /\ trace[i].call = "construct"
                         /\ trace[i].ret = "raise"].b
       IN  /\ result.exc # "none"
           /\ result.origin = "ctor"
           /\ result.msg = { b }
           /\ result.obj = None
           /\ Cardinality(Calls("construct")) = 1
           /\ trace[Len(trace)] = Ev("construct", b, "raise")
           /\ \A i \in DOMAIN trace :
                 PreferenceIndex(trace[i].b) <= PreferenceIndex(b)
           /\ \A x \in Descriptors : instance[x] = None \/ x # b
           /\ instance[b] = None
           /\ \A environment \in Environments :
                 LET again == SelectAgain(environment)
                 IN  /\ \E i \in DOMAIN again.trace :
                           /\ again.trace[i].call = "construct"
                           /\ again.trace[i].b = b
                     /\ \A i \in DOMAIN again.trace :
                           again.trace[i].call = "construct"
                           => again.trace[i].b = b

\* docling's constructor raised in get_backend(None) while pypdf, lower in
\* the list, is known to be available; pypdf was not touched
C26_Witness ==
    /\ Returned("get_backend")
    /\ result.name = None
    /\ result.origin = "ctor"
    /\ result.msg = { "docling" }
    /\ available["pypdf"] = Some(TRUE)
    /\ instance["pypdf"] = None
    /\ \A i \in DOMAIN trace : trace[i].b = "docling"

\* the commercial and LLM backends: registered, and in no preference list
OutsidePreference ==
    { "aws_textract", "azure_document_intelligence", "google_document_ai",
      "databricks", "llamaparse", "anthropic", "openai", "gemini" }

\* C27: get_backend(None) and available_backends() look at no commercial
\* or LLM backend: they probe none, return none and list none; when none
\* of the other backends is available get_backend(None) raises the
\* no-backends RuntimeError, whatever is known of the commercial and LLM
\* ones; such a backend is returned to a caller that named it, only.
C27_OnlyPreferenceListConsidered ==
    /\ OutsidePreference \subseteq RegistryKeys
    /\ ( Returned("available_backends")
         \/ ( Returned("get_backend") /\ result.name = None ) )
       => /\ \A i \in DOMAIN trace : trace[i].b \notin OutsidePreference
          /\ \A i \in DOMAIN result.list :
                result.list[i] \notin OutsidePreference
          /\ result.obj # None => result.obj[1].b \notin OutsidePreference
    /\ ( /\ Returned("get_backend")
         /\ result.name = None
         /\ \A b \in RegistryKeys \ OutsidePreference :
               available[b] = Some(FALSE) )
       => /\ result.exc = "RuntimeError"
          /\ result.origin = "get_backend"
          /\ result.obj = None
    /\ ( /\ pc = "returned"
         /\ result.op \in { "get_backend", "parse", "parse_async" }
         /\ result.obj # None
         /\ result.obj[1].b \in OutsidePreference )
       => result.name = Some(result.obj[1].b)

\* get_backend(None) raised the no-backends error although anthropic is
\* available and has been constructed for a caller that named it
C27_Witness ==
    /\ Returned("get_backend")
    /\ result.name = None
    /\ result.exc = "RuntimeError"
    /\ available["anthropic"] = Some(TRUE)
    /\ instance["anthropic"] # None
    /\ \A i \in DOMAIN DEFAULT_PREFERENCE :
          available[DEFAULT_PREFERENCE[i]] = Some(FALSE)


\* ------------------------------- environment names of unusual backends
\* the characters a normalized name keeps: upper-case letters, digits
Digits == << "0", "1", "2", "3", "4", "5", "6", "7", "8", "9" >>
Alphanumeric(c) == IsLetterOf(UpperLetters, c) \/ IsLetterOf(Digits, c)

\* the backend name upper-cased, every other character made an underscore
NormalizedUpper(backend_name) ==
    LET upper == str_upper(backend_name)
    IN  [i \in DOMAIN upper |->
            IF Alphanumeric(upper[i]) THEN upper[i] ELSE "_"]

\* the backend part of the variable names the resolver reads, per backend
BackendUpperOf(backend_name) ==
    CASE backend_name = str_some_backend ->
            << "S", "O", "M", "E", "_", "B", "A", "C", "K", "E", "N", "D" >>
      [] backend_name = str_my_dot_backend ->
            << "M", "Y", ".", "B", "A", "C", "K", "E", "N", "D" >>
      [] backend_name = str_my_space_backend ->
            << "M", "Y", " ", "B", "A", "C", "K", "E", "N", "D" >>

\* the resolved options when only the environment contributes
EnvOnly ==
    LoadReturned /\ ExplicitLayer = EmptyDict /\ FileLayer = EmptyDict

\* a known option is resolved from the variables spelled with this
\* backend part: PDFSMITH_<part>_<OPTION> first, then <part>_<OPTION>
ReadsVariablesOf(part) ==
    \A o \in KnownSet :
       LET options == loaded[1].config.options
           l == part \o str_underscore \o str_upper(o)
           g == str_PDFSMITH_ \o l
       IN  IF g \in DOMAIN environ
           THEN o \in DOMAIN options /\ options[o] = PyStr(environ[g])
           ELSE IF l \in DOMAIN environ
           THEN o \in DOMAIN options /\ options[o] = PyStr(environ[l])
           ELSE o \notin DOMAIN options

\* C28 as stated: for every backend name the variables read are spelled
\* with the name upper-cased and every non-alphanumeric character (a
\* hyphen, a dot, a space) normalized to an underscore.
C28_EveryNonAlphanumericNormalized ==
    EnvOnly => ReadsVariablesOf(NormalizedUpper(loaded[1].backend_name))

\* C28 amended: the variables read are spelled with the backend name
\* upper-cased and its hyphens replaced by underscores; every other
\* character, a dot or a space included, is kept as it is.
C28_OnlyHyphensNormalized ==
    EnvOnly => ReadsVariablesOf(BackendUpperOf(loaded[1].backend_name))

\* MY.BACKEND_DO_OCR and MY_BACKEND_DO_OCR are both set, to different
\* values, and my.backend resolves do_ocr from the dotted one
C28_Witness ==
    /\ LoadReturned
    /\ loaded[1].backend_name = str_my_dot_backend
    /\ loaded[1].known_options = Some(<< str_do_ocr, str_device >>)
    /\ MY_DOT_BACKEND_DO_OCR \in DOMAIN environ
    /\ MY_BACKEND_DO_OCR \in DOMAIN environ
    /\ environ[MY_DOT_BACKEND_DO_OCR] = str_true
    /\ environ[MY_BACKEND_DO_OCR] = str_empty
    /\ loaded[1].config.options = (str_do_ocr :> PyStr(str_true))


\* ------------------------------------- callers of get_backend_defaults
\* C22: whatever the callers have done with the dicts returned to them,
\* BACKEND_DEFAULTS reads as it was written in config.py and the next
\* get_backend_defaults call returns, for every backend, the defaults as
\* written.
C22_DefaultsAreCopies ==
    /\ \A backend_name \in DefaultsKeys :
          Deref(heap, module_table[backend_name]) = BACKEND_DEFAULTS(backend_name)
    /\ \A backend_name \in DefaultsBackends \cup DefaultsKeys :
          Deref(heap, get_backend_defaults_object(module_table, backend_name))
             = BACKEND_DEFAULTS(backend_name)

\* the part of C22 that holds: assigning to a key of a returned dict
\* changes neither BACKEND_DEFAULTS nor the dicts other calls returned
C22_TopLevelKeysAreCopied ==
    /\ module_table = ModuleDefaults
    /\ \A backend_name \in DefaultsBackends \cup DefaultsKeys :
          LET d == get_backend_defaults_object(module_table, backend_name)
          IN  /\ DOMAIN d = DOMAIN BACKEND_DEFAULTS(backend_name)
              /\ \A k \in DOMAIN d :
                    d[k].kind # "ref" => d[k] = BACKEND_DEFAULTS(backend_name)[k]


\* ------------------------------------------- one DoclingBackend in use
\* C23: a DoclingBackend constructed without a do_ocr argument while
\* DOCLING_OCR=true is set has OCR enabled.
C23_DoclingOcrVariableEnablesOcr ==
    (/\ dbackend # None
     /\ built[1].do_ocr = None
     /\ DOCLING_OCR \in DOMAIN built[1].environ
     /\ built[1].environ[DOCLING_OCR] = str_true)
    => OcrEnabled(dbackend[1])

\* the variable the constructor does read: with DOCLING_DO_OCR=true and no
\* do_ocr argument OCR is enabled
C23_DoOcrVariableEnablesOcr ==
    (/\ dbackend # None
     /\ built[1].do_ocr = None
     /\ DOCLING_DO_OCR \in DOMAIN built[1].environ
     /\ built[1].environ[DOCLING_DO_OCR] = str_true)
    => OcrEnabled(dbackend[1])


\* C29: in sequential use of one DoclingBackend, between calls the count
\* is within 0..CONVERTER_RESET_INTERVAL, no converter has completed more
\* than CONVERTER_RESET_INTERVAL conversions, and the count is the number
\* of conversions the current converter has completed: a conversion that
\* raised has not advanced it.
C29_ConverterRecreatedEveryInterval ==
    dbackend # None
    => /\ dbackend[1].conversion_count \in 0 .. CONVERTER_RESET_INTERVAL
       /\ \A c \in DOMAIN served : served[c] <= CONVERTER_RESET_INTERVAL
       /\ IF dbackend[1].converter = NoConverter
          THEN dbackend[1].conversion_count = 0
          ELSE /\ dbackend[1].converter = Len(served)
               /\ dbackend[1].conversion_count
                     = served[dbackend[1].converter]

\* the first converter has completed its ten conversions and was dropped;
\* the second one has completed some
C29_Witness ==
    /\ dbackend # None
    /\ Len(served) = 2
    /\ served[1] = CONVERTER_RESET_INTERVAL
    /\ dbackend[1].converter = 2
    /\ dbackend[1].conversion_count = 3


\* ------------------------- executor threads in DoclingBackend.parse
\* C30: whatever the interleaving of the executor threads, the count never
\* exceeds CONVERTER_RESET_INTERVAL, no converter serves more than
\* CONVERTER_RESET_INTERVAL conversions, and no count is lost: once every
\* call has returned, the count is the number of conversions the current
\* converter has completed.
C30_InterleavingsKeepBounds ==
    dbackend # None
    => /\ dbackend[1].conversion_count <= CONVERTER_RESET_INTERVAL
       /\ \A c \in DOMAIN served : served[c] <= CONVERTER_RESET_INTERVAL
       /\ (/\ \A t \in Workers : workers[t].pc = "idle"
           /\ dbackend[1].converter # NoConverter)
          => dbackend[1].conversion_count = served[dbackend[1].converter]


\* ------------------------------------------------- the command line
\* what parse does for the arguments of the last run
CliParse ==
    parse(Machine, cli[1].still_exists, cli[1].name, cli[1].ok, cli[1].host)

\* C21: the parse command exits with 0 only when parse returned and the
\* text was written to the output file or printed, and with 1 otherwise: a
\* missing input file is reported as 'Error: File not found' without parse
\* being called, an ImportError as 'Error: ...', and any other exception
\* as 'Error parsing PDF: ...'.
C21_ExitCodeReportsOutcome ==
    cli # None
    => LET c == cli[1]
       IN  /\ c.ret.code \in { 0, 1 }
           /\ c.ret.code = 0
                 => /\ c.exists
                    /\ c.ret.called
                    /\ CliParse.exc = "none"
                    /\ c.ret.err = ""
                    /\ IF c.output = None
                       THEN c.ret.out = "markdown" /\ ~ c.ret.written
                       ELSE c.ret.out = "Written to " /\ c.ret.written
           /\ ~ c.exists
                 => /\ c.ret.code = 1
                    /\ c.ret.err = "Error: File not found: "
                    /\ ~ c.ret.called
           /\ (c.exists /\ CliParse.exc = "ImportError")
                 => c.ret.code = 1 /\ c.ret.err = "Error: "
           /\ (c.exists /\ CliParse.exc \notin { "none", "ImportError" })
                 => c.ret.code = 1 /\ c.ret.err = "Error parsing PDF: "
           /\ (c.exists /\ CliParse.exc = "none" /\ c.output # None
                        /\ ~ c.write_ok)
                 => /\ c.ret.code = 1
                    /\ c.ret.err = "Error parsing PDF: "
                    /\ ~ c.ret.written
           /\ c.ret.code = 1 => c.ret.out = "" /\ c.ret.err # ""

\* docling was asked for on a host where it is not installed: parse was
\* called, raised ImportError, and the command exited with 1
C21_Witness ==
    /\ cli # None
    /\ cli[1].exists
    /\ cli[1].name = Some("docling")
    /\ cli[1].host["docling"] = "nodep"
    /\ cli[1].ret.called
    /\ cli[1].ret.exc = "ImportError"
    /\ cli[1].ret.code = 1
    /\ cli[1].ret.err = "Error: "

====
